---- MODULE Spec2Model ----
(***************************************************************************)
(* The action budget governor (stealth.RateLimiter) of the LinkedIn        *)
(* automation tool and the workflows that are gated by it: Searcher.Search,*)
(* ConnectionManager.SendConnectionRequest / SendBulkConnectionRequests,   *)
(* MessagingManager.SendFollowUpMessage / SendDirectMessage.               *)
(*                                                                         *)
(* Time is the wall clock in whole hours since the midnight that starts    *)
(* day 0.  checkReset reads nothing of time.Now() but its calendar day     *)
(* (Year, YearDay) and its hour of day, so an hour is the finest grain     *)
(* that the limiter can tell apart.                                        *)
(*                                                                         *)
(* Further specifications of the same module cover the pacing and the      *)
(* planners around the governor: RateLimiter.WaitForNextAction (SpecWait), *)
(* stealth.Scheduler on a weekly wall clock (SpecScheduler), the session   *)
(* loop of Application.runFullWorkflow with the signal handler of          *)
(* setupGracefulShutdown (SpecSession), StealthManager.HumanType           *)
(* (SpecTyping) and config.LoadConfig / Config.Validate (SpecConfig).      *)
(* Durations are counted in ticks of the clock of their specification;     *)
(* the code counts them in milliseconds or minutes, and only adds,         *)
(* subtracts and compares them.                                            *)
(***************************************************************************)
EXTENDS Integers, FiniteSets, Sequences, TLC

\* ------------------------------------------------------------------ bounds
\* Hours in a calendar day of the model clock (time.Time has 24; the limiter
\* only compares hours for equality, so the clock is scaled down).
HoursPerDay == 3
\* Last hour the clock reaches.
MaxTime == 6
\* Cap on every counter of actionCounts (RecordAction is not taken beyond it).
MaxCount == 2
\* RateLimitConfig of the run (config.go: any value the YAML file supplies).
MaxConnectionsPerDay == 2
MaxMessagesPerDay == 1
MaxProfileViewsPerDay == 2
MaxSearchesPerHour == 1
\* Longest profile list handed to SendBulkConnectionRequests.
MaxProfiles == 2
\* Largest delay of a configuration (MinDelayBetweenActions,
\* MaxDelayBetweenActions, TypingDelayMin, ...), in clock ticks.
MaxDelay == 3
\* Largest SessionMaxMin of a configuration, in slots of the weekly clock.
MaxSession == 2
\* Largest BreakMinMax of a configuration, in slots of the weekly clock.
MaxBreak == 2
\* Resolution of rand.Float64(): its draws are k / RandSteps, 0 <= k < RandSteps,
\* and the rates of a configuration are r / RandSteps, 0 <= r <= RandSteps.
RandSteps == 2
\* Slots of the weekly clock in an hour (one slot is one sleep of
\* WaitForOperatingHours; its 5 minutes give 12).
PollsPerHour == 1
\* Longest text handed to HumanType.
MaxTextLen == 2
\* Half the span of the jitter HumanScroll adds to its amount (the code draws
\* rand.Intn(100) - 50: 50), in scroll units.
MaxJitter == 2
\* Largest amount handed to HumanScroll, in scroll units.
MaxAmount == 3
\* Largest MouseSpeedMin / MouseSpeedMax of a configuration, in quarters.
MaxSpeed == 8
\* Longest path calculateMovementDelay is asked about (generateBezierPath
\* makes 10 points or more).
MaxSteps == 12

\* -------------------------------------------------------------- categories
KnownCategories == {"connection", "message", "profile_view", "search"}

\* Every actionType string the model passes; "other" stands for any string
\* that is none of the four cases of the switch.
Categories == KnownCategories \cup {"other"}

\* The three keys the daily branch of checkReset zeroes.
DailyCategories == {"connection", "message", "profile_view"}

VARIABLES
    now,             \* time.Now(), in hours
    actionCounts,    \* RateLimiter.actionCounts (a missing key reads as 0)
    lastReset,       \* RateLimiter.lastReset
    lastAction,      \* RateLimiter.lastAction
    ev,              \* the last call made on the limiter's API and its result
    searchResetInHour, \* history: the search counter was (re)started in this clock hour
    checkedInHour,   \* history: a checkReset has run in this clock hour
    pc,              \* position of the workflow thread
    op,              \* the workflow operation in progress
    result,          \* outcome of the last finished operation
    bulk,            \* profiles left in SendBulkConnectionRequests
    tally,           \* SendBulkConnectionRequests: its locals sent and failed
    batch,           \* history of the running SendBulkConnectionRequests call
    checked,         \* history: categories CanPerformAction allowed in this op
    recorded,        \* history: categories this op passed to RecordAction
    zeroed,          \* history: categories a rollover zeroed during this op
    preCount,        \* history: counter of the op's own category at its call
    inWindow,        \* history: RecordAction events in the current hour / day
    config,          \* the *config.Config LoadConfig read (fields the model uses)
    wait,            \* locals of the running / last WaitForNextAction call
    wall,            \* local wall clock of the scheduler: slot of the week
    sleepLeft,       \* slots until the time.Sleep the thread is blocked in ends
    elapsed,         \* time.Since(sessionStart) of runFullWorkflow, in slots
    proc,            \* the process and its signal-handler goroutine
    closed,          \* history: the Close calls on the browser and the database
    text,            \* the text handed to HumanType
    keys,            \* the key events HumanType has sent to the page
    charIndex,       \* HumanType: characters of text done (the loop index i)
    field,           \* the characters in the element HumanType types into
    target,          \* MoveMouse: the Point{targetX, targetY} it was called with
    points,          \* MoveMouse: the path it planned
    index,           \* MoveMouse: points of the path done (the loop index i)
    mouse,           \* page.Mouse: pointer commands received, and the last one
    scripts,         \* ApplyFingerprintMasking: the scripts it built
    evals,           \* ApplyFingerprintMasking: outcome of each page.Eval so far
    direction,       \* HumanScroll: the direction it was called with
    amount,          \* HumanScroll: the amount it was called with
    actualAmount,    \* HumanScroll: amount plus the jitter drawn
    scrolled,        \* HumanScroll: the local scrolled
    deltas,          \* page.Mouse: deltaY of every Scroll of the forward loop
    back,            \* page.Mouse: deltaY of the Scroll of scrollBack (0: none)
    totalSteps,      \* calculateMovementDelay: len(points) of the path in progress
    step,            \* calculateMovementDelay: steps of the path done
    delay,           \* calculateMovementDelay: the last delay returned
    delayStart,      \* history: the delay returned for step 0
    delayMiddle      \* history: the delay returned for step totalSteps/2

limiterVars == <<actionCounts, lastReset, lastAction>>
historyVars == <<searchResetInHour, checkedInHour>>
workflowVars == <<pc, op, result, bulk, tally, batch, checked, recorded, zeroed, preCount, inWindow>>
schedulerVars == <<wall, sleepLeft, elapsed, proc, closed>>
typingVars == <<text, keys, charIndex, field>>
mouseVars == <<target, points, index, mouse>>
maskVars == <<scripts, evals>>
scrollVars == <<direction, amount, actualAmount, scrolled, deltas, back>>
delayVars == <<totalSteps, step, delay, delayStart, delayMiddle>>
deviceVars == <<mouseVars, maskVars, scrollVars, delayVars>>
stealthVars == <<config, wait, schedulerVars, typingVars, deviceVars>>
vars == <<now, limiterVars, ev, historyVars, workflowVars, stealthVars>>

\* ------------------------------------------------------------------- time
\* now.Year(), now.YearDay(): the calendar day of an instant.
Day(t) == t \div HoursPerDay

\* now.Hour(): the hour of day of an instant.
Hour(t) == t % HoursPerDay

\* ---------------------------------------------------------- configuration
\* DefaultConfig with the credentials filled in: the limits are those of the
\* run, the durations are scaled to clock ticks, the rate to RandSteps.
RunConfig ==
    [Email |-> "user@example.com", Password |-> "secret", Level |-> "info",
     MaxConnectionsPerDay |-> MaxConnectionsPerDay,
     MaxMessagesPerDay |-> MaxMessagesPerDay,
     CooldownMinutes |-> 1,
     MinDelayBetweenActions |-> 1, MaxDelayBetweenActions |-> MaxDelay,
     TypingDelayMin |-> 1, TypingDelayMax |-> MaxDelay, TypingMistakeRate |-> 1,
     MouseSpeedMin |-> 2, MouseSpeedMax |-> 8,
     MouseOvershoot |-> TRUE,
     MouseMicroCorrect |-> TRUE,
     DisableWebdriver |-> TRUE,
     ScrollBackChance |-> 1,
     ScrollSpeedMin |-> 1, ScrollSpeedMax |-> MaxDelay,
     ActionDelayMin |-> 1, ActionDelayMax |-> MaxDelay,
     PageLoadWaitMin |-> 1, PageLoadWaitMax |-> MaxDelay,
     Enabled |-> TRUE, StartHour |-> 9, EndHour |-> 18, WorkDaysOnly |-> TRUE,
     BreakMinMin |-> 1, BreakMinMax |-> MaxBreak, SessionMaxMin |-> MaxSession]

\* validLevels of Validate.
ValidLevels == {"debug", "info", "warn", "error"}

\* validate_HourTo24 lets the hours run to 24.
validate_HourTo24(c) ==
    IF c.Email = "" THEN "LinkedIn email is required"
    ELSE IF c.Password = "" THEN "LinkedIn password is required"
    ELSE IF c.MaxConnectionsPerDay < 0 \/ c.MaxConnectionsPerDay > 100
         THEN "max_connections_per_day must be between 0 and 100"
    ELSE IF c.MaxMessagesPerDay < 0 \/ c.MaxMessagesPerDay > 150
         THEN "max_messages_per_day must be between 0 and 150"
    ELSE IF c.StartHour < 0 \/ c.StartHour > 24
         THEN "start_hour must be between 0 and 23"
    ELSE IF c.EndHour < 0 \/ c.EndHour > 24
         THEN "end_hour must be between 0 and 23"
    ELSE IF c.Level \notin {"debug", "info", "warn", "error"} THEN "invalid log level"
    ELSE "nil"

\* Config.Validate: the first error it returns, "nil" when it returns nil.
validate(c) ==
    IF c.Email = "" THEN "LinkedIn email is required"
    ELSE IF c.Password = "" THEN "LinkedIn password is required"
    ELSE IF c.MaxConnectionsPerDay < 0 \/ c.MaxConnectionsPerDay > 100
         THEN "max_connections_per_day must be between 0 and 100"
    ELSE IF c.MaxMessagesPerDay < 0 \/ c.MaxMessagesPerDay > 150
         THEN "max_messages_per_day must be between 0 and 150"
    ELSE IF c.StartHour < 0 \/ c.StartHour > 23
         THEN "start_hour must be between 0 and 23"
    ELSE IF c.EndHour < 0 \/ c.EndHour > 23
         THEN "end_hour must be between 0 and 23"
    ELSE IF c.Level \notin ValidLevels THEN "invalid log level"
    ELSE "nil"

\* rand.Intn(n) and rand.Int63n(n) panic unless n > 0 ...
IntnPanics(n) == n <= 0

\* ... and otherwise draw from [0, n).
Intn(n) == 0..(n - 1)

\* ------------------------------------------------------------ RateLimiter
\* The limit the switch of CanPerformAction / GetRemainingActions picks.
Limit(actionType) ==
    CASE actionType = "connection" -> MaxConnectionsPerDay
      [] actionType = "message" -> MaxMessagesPerDay
      [] actionType = "profile_view" -> MaxProfileViewsPerDay
      [] actionType = "search" -> MaxSearchesPerHour

\* checkReset with the daily branch forgetting to move the marker.
checkReset_KeepsMarker(counts, reset, t) ==
    LET daily == Day(t) # Day(reset)
        c1 == IF daily
              THEN [k \in Categories |-> IF k \in DailyCategories THEN 0 ELSE counts[k]]
              ELSE counts
        hourly == Hour(t) # Hour(reset)
        c2 == IF hourly THEN [c1 EXCEPT !["search"] = 0] ELSE c1
    IN [actionCounts |-> c2, lastReset |-> reset, daily |-> daily, hourly |-> hourly]

\* checkReset: the counters and the marker it leaves when run at time t, and
\* which of its two branches ran.  The hourly test reads r.lastReset after
\* the daily branch may have overwritten it, and never writes it.
checkReset(counts, reset, t) ==
    LET daily == Day(t) # Day(reset)
        c1 == IF daily
              THEN [k \in Categories |-> IF k \in DailyCategories THEN 0 ELSE counts[k]]
              ELSE counts
        r1 == IF daily THEN t ELSE reset
        hourly == Hour(t) # Hour(r1)
        c2 == IF hourly THEN [c1 EXCEPT !["search"] = 0] ELSE c1
    IN [actionCounts |-> c2, lastReset |-> r1, daily |-> daily, hourly |-> hourly]

\* CanPerformAction with the comparison current > limit.
canPerform_OffByOne(counts, actionType) ==
    IF actionType \notin KnownCategories
    THEN TRUE
    ELSE ~(counts[actionType] > Limit(actionType))

\* The value CanPerformAction returns on the counters its checkReset left.
canPerform(counts, actionType) ==
    IF actionType \notin KnownCategories
    THEN TRUE
    ELSE ~(counts[actionType] >= Limit(actionType))

\* GetRemainingActions clamping an overdrawn quota to 0.
remaining_Clamped(counts, actionType) ==
    IF actionType \notin KnownCategories
    THEN 999
    ELSE IF Limit(actionType) - counts[actionType] < 0
         THEN 0
         ELSE Limit(actionType) - counts[actionType]

\* The value GetRemainingActions returns on the counters its checkReset left.
remaining(counts, actionType) ==
    IF actionType \notin KnownCategories
    THEN 999
    ELSE Limit(actionType) - counts[actionType]

\* RecordAction that leaves lastAction alone.
recordAction_NoStamp(counts, action, actionType, t) ==
    [actionCounts |-> [counts EXCEPT ![actionType] = @ + 1], lastAction |-> action]

\* RecordAction: actionCounts[actionType]++ and lastAction = time.Now().
recordAction(counts, action, actionType, t) ==
    [actionCounts |-> [counts EXCEPT ![actionType] = @ + 1], lastAction |-> t]

\* ------------------------------------------------------ calls on the limiter
\* History: the RecordAction events of a category that fall in the running
\* window (clock hour for search, calendar day for the others), counted up to
\* one more than the limit.
Bump(w, actionType) ==
    IF actionType \in KnownCategories /\ w[actionType] <= Limit(actionType)
    THEN [w EXCEPT ![actionType] = @ + 1]
    ELSE w

\* History: the windows that are still running when the clock goes from t to
\* t + 1 keep their event counts, the others start at 0.
Roll(w, t) ==
    [k \in KnownCategories |->
        IF k = "search" THEN 0
        ELSE IF Day(t + 1) # Day(t) THEN 0 ELSE w[k]]

\* r.CanPerformAction(actionType): checkReset, then the switch and the test.
CanPerformActionCall(actionType) ==
    LET r == checkReset(actionCounts, lastReset, now)
    IN /\ actionCounts' = r.actionCounts
       /\ lastReset' = r.lastReset
       /\ ev' = [op |-> "CanPerformAction", arg |-> actionType,
                 can |-> canPerform(r.actionCounts, actionType), rem |-> 0]
       /\ searchResetInHour' = (r.hourly \/ searchResetInHour)
       /\ checkedInHour' = TRUE
       /\ UNCHANGED <<stealthVars, now, lastAction>>

\* r.GetRemainingActions(actionType): checkReset, then the switch and the
\* difference.
GetRemainingActionsCall(actionType) ==
    LET r == checkReset(actionCounts, lastReset, now)
    IN /\ actionCounts' = r.actionCounts
       /\ lastReset' = r.lastReset
       /\ ev' = [op |-> "GetRemainingActions", arg |-> actionType,
                 can |-> TRUE, rem |-> remaining(r.actionCounts, actionType)]
       /\ searchResetInHour' = (r.hourly \/ searchResetInHour)
       /\ checkedInHour' = TRUE
       /\ UNCHANGED <<stealthVars, now, lastAction>>

\* r.RecordAction(actionType)
RecordActionCall(actionType) ==
    LET r == recordAction(actionCounts, lastAction, actionType, now)
    IN /\ actionCounts[actionType] < MaxCount
       /\ actionCounts' = r.actionCounts
       /\ lastAction' = r.lastAction
       /\ ev' = [op |-> "RecordAction", arg |-> actionType, can |-> TRUE, rem |-> 0]
       /\ UNCHANGED <<stealthVars, now, lastReset, historyVars>>

\* History: the categories the checkReset of a quota check made now zeroes.
ZeroedNow ==
    LET r == checkReset(actionCounts, lastReset, now)
    IN (IF r.daily THEN DailyCategories ELSE {}) \cup (IF r.hourly THEN {"search"} ELSE {})

\* ------------------------------------------------- the limiter's API, driven
\* The clock moves on by an hour.
Tick ==
    /\ now < MaxTime
    /\ now' = now + 1
    /\ ev' = [op |-> "Tick", arg |-> "other", can |-> TRUE, rem |-> 0]
    /\ inWindow' = Roll(inWindow, now)
    /\ searchResetInHour' = FALSE
    /\ checkedInHour' = FALSE
    /\ batch' = IF (pc = "b_loop" \/ bulk > 0) /\ Day(now + 1) # Day(now)
                THEN [batch EXCEPT !.rolled = TRUE]
                ELSE batch
    /\ UNCHANGED <<stealthVars, limiterVars, pc, op, result, bulk, tally, checked, recorded,
                   zeroed, preCount>>

\* A client calls r.CanPerformAction(actionType).
CanPerformAction(actionType) ==
    /\ CanPerformActionCall(actionType)
    /\ UNCHANGED workflowVars

\* A client calls r.GetRemainingActions(actionType).
GetRemainingActions(actionType) ==
    /\ GetRemainingActionsCall(actionType)
    /\ UNCHANGED workflowVars

\* A client calls r.RecordAction(actionType).
RecordAction(actionType) ==
    /\ RecordActionCall(actionType)
    /\ UNCHANGED workflowVars

\* NewRateLimiter at time t.
NewRateLimiter(t) ==
    /\ now = t
    /\ actionCounts = [k \in Categories |-> 0]
    /\ lastReset = now
    /\ lastAction = now
    /\ ev = [op |-> "NewRateLimiter", arg |-> "other", can |-> TRUE, rem |-> 0]
    /\ searchResetInHour = TRUE
    /\ checkedInHour = FALSE

\* sent := 0; failed := 0
NoTally == [sent |-> 0, failed |-> 0]

\* History: no SendBulkConnectionRequests call is running.
NoBatch == [attempted |-> 0, records |-> 0, remaining |-> 0, rolled |-> FALSE]

\* The workflow thread stands at a position of an operation, nothing called
\* yet.
Thread(position, operation) ==
    /\ pc = position
    /\ op = operation
    /\ result = "none"
    /\ bulk = 0
    /\ tally = NoTally
    /\ batch = NoBatch
    /\ checked = {}
    /\ recorded = {}
    /\ zeroed = {}
    /\ preCount = 0
    /\ inWindow = [k \in KnownCategories |-> 0]

\* The locals of WaitForNextAction before its first call.
NoWait == [elapsed |-> 0, targetDelay |-> 0, sleepTime |-> 0]

\* History: neither app.browser.Close() nor app.db.Close() has been called.
NoClose == [browser |-> 0, db |-> 0]

\* No session is running: the process is up with its signal handler
\* installed, nothing sleeps.
NoSession ==
    /\ wait = NoWait
    /\ wall = 0
    /\ sleepLeft = 0
    /\ elapsed = 0
    /\ proc = "running"
    /\ closed = NoClose

\* HumanType has not been called.
NoTyping ==
    /\ text = <<>>
    /\ keys = <<>>
    /\ charIndex = 0
    /\ field = <<>>

\* No page is open: nothing was planned, the pointer has received nothing.
NoPoint == [X |-> 0, Y |-> 0]

NoMouse ==
    /\ target = NoPoint
    /\ points = <<>>
    /\ index = 0
    /\ mouse = [moves |-> 0, at |-> NoPoint]

NoMask ==
    /\ scripts = <<>>
    /\ evals = <<>>

NoScroll ==
    /\ direction = "down"
    /\ amount = 0
    /\ actualAmount = 0
    /\ scrolled = 0
    /\ deltas = <<>>
    /\ back = 0

NoDelay ==
    /\ totalSteps = 0
    /\ step = 0
    /\ delay = 0
    /\ delayStart = 0
    /\ delayMiddle = 0

NoDevice ==
    /\ NoMouse
    /\ NoMask
    /\ NoScroll
    /\ NoDelay

\* NewRateLimiter at any hour of day 0, no workflow running.
Init ==
    /\ \E t \in 0..(HoursPerDay - 1) : NewRateLimiter(t)
    /\ Thread("idle", "none")
    /\ config = RunConfig
    /\ NoSession
    /\ NoTyping
    /\ NoDevice

Next ==
    \/ Tick
    \/ \E actionType \in Categories : CanPerformAction(actionType)
    \/ \E actionType \in Categories : GetRemainingActions(actionType)
    \/ \E actionType \in Categories : RecordAction(actionType)

\* A client that calls the limiter's API in any order while time passes.
Spec == Init /\ [][Next]_vars

\* ------------------------------------------------------------ the workflows
\* The operations a driving workflow calls.
Operations == {"Search", "SendConnectionRequest", "SendFollowUpMessage", "SendDirectMessage"}

\* The category whose quota gates an operation.
Own(o) ==
    CASE o = "Search" -> "search"
      [] o = "SendConnectionRequest" -> "connection"
      [] o = "SendFollowUpMessage" -> "message"
      [] o = "SendDirectMessage" -> "message"

\* Where the body of an operation starts.
Entry(o) ==
    CASE o = "Search" -> "s_check"
      [] o = "SendConnectionRequest" -> "c_check"
      [] o = "SendFollowUpMessage" -> "m_check"
      [] o = "SendDirectMessage" -> "m_check"

\* An operation is entered: its histories start afresh.
Enter(o) ==
    /\ op' = o
    /\ pc' = Entry(o)
    /\ result' = "none"
    /\ checked' = {}
    /\ recorded' = {}
    /\ zeroed' = {}
    /\ preCount' = actionCounts[Own(o)]

\* The operation returns to its caller with an error (status "err") or with
\* nil (status "ok").
Return(status) ==
    /\ pc' = "ret"
    /\ result' = status
    /\ UNCHANGED <<op, bulk, tally, batch>>

\* An effector call (page, database, template) of the operation at position
\* from: on failure the operation returns its error, otherwise it goes on at
\* position to.  The limiter is not touched.
Effector(from, to) ==
    /\ pc = from
    /\ \E ok \in BOOLEAN :
         IF ok
         THEN pc' = to /\ UNCHANGED <<op, result, bulk, tally, batch>>
         ELSE Return("err")
    /\ UNCHANGED <<stealthVars, now, limiterVars, ev, historyVars, checked, recorded, zeroed, preCount, inWindow>>

\* rateLimiter.RecordAction(category) inside an operation.
Record(actionType) ==
    /\ RecordActionCall(actionType)
    /\ recorded' = recorded \cup {actionType}
    /\ inWindow' = Bump(inWindow, actionType)
    /\ UNCHANGED <<checked, zeroed, preCount>>

\* The workflow calls one of the four operations.
Call ==
    /\ pc = "idle"
    /\ \E o \in Operations : Enter(o)
    /\ UNCHANGED <<stealthVars, now, limiterVars, ev, historyVars, bulk, tally, batch, inWindow>>

\* The operation's return value has reached its caller: the workflow, or the
\* loop of SendBulkConnectionRequests.
Resume ==
    /\ pc = "ret"
    /\ pc' = IF bulk > 0 THEN "b_delay" ELSE "idle"
    /\ UNCHANGED <<stealthVars, now, limiterVars, ev, historyVars, op, result, bulk, tally, batch,
                   checked, recorded, zeroed, preCount, inWindow>>

\* --- Searcher.Search
\* if !s.rateLimiter.CanPerformAction("search") { return error }
Search_Check ==
    /\ pc = "s_check"
    /\ CanPerformActionCall("search")
    /\ zeroed' = zeroed \cup ZeroedNow
    /\ checked' = IF ev'.can THEN checked \cup {"search"} ELSE checked
    /\ IF ev'.can
       THEN pc' = "s_nav" /\ UNCHANGED <<op, result, bulk, tally, batch>>
       ELSE Return("err")
    /\ UNCHANGED <<recorded, preCount, inWindow>>

\* s.page.Navigate(searchURL)
Search_Navigate == Effector("s_nav", "s_load")

\* s.page.WaitLoad()
Search_WaitLoad == Effector("s_load", "s_collect")

\* collectResults (which never returns an error), RecordAction("search"),
\* SaveSearchHistory, return results.
Search_Collect ==
    /\ pc = "s_collect"
    /\ Record("search")
    /\ Return("ok")

\* --- ConnectionManager.SendConnectionRequest
\* if !c.rateLimiter.CanPerformAction("connection") { ... }
SendConnectionRequest_Check ==
    /\ pc = "c_check"
    /\ CanPerformActionCall("connection")
    /\ zeroed' = zeroed \cup ZeroedNow
    /\ checked' = IF ev'.can THEN checked \cup {"connection"} ELSE checked
    /\ pc' = IF ev'.can THEN "c_dup" ELSE "c_limited"
    /\ UNCHANGED <<op, result, bulk, tally, batch, recorded, preCount, inWindow>>

\* remaining := GetRemainingActions("connection"); return the rate limit error.
SendConnectionRequest_Limited ==
    /\ pc = "c_limited"
    /\ GetRemainingActionsCall("connection")
    /\ zeroed' = zeroed \cup ZeroedNow
    /\ Return("err")
    /\ UNCHANGED <<checked, recorded, preCount, inWindow>>

\* c.db.HasSentConnectionRequest: an already sent request is an error.
SendConnectionRequest_Duplicate == Effector("c_dup", "c_nav")

\* c.navigateToProfile; on success RecordAction("profile_view").
SendConnectionRequest_Navigate ==
    /\ pc = "c_nav"
    /\ \E ok \in BOOLEAN :
         IF ok
         THEN /\ Record("profile_view")
              /\ pc' = "c_click"
              /\ UNCHANGED <<op, result, bulk, tally, batch>>
         ELSE /\ Return("err")
              /\ UNCHANGED <<stealthVars, now, limiterVars, ev, historyVars, checked, recorded,
                             zeroed, preCount, inWindow>>

\* c.clickConnectButton
SendConnectionRequest_ClickConnect == Effector("c_click", "c_send")

\* SendConnectionRequest recording the connection before the Send click is
\* known to have worked.
SendConnectionRequest_Send_Speculative ==
    /\ pc = "c_send"
    /\ Record("connection")
    /\ \E ok \in BOOLEAN : IF ok THEN Return("ok") ELSE Return("err")

\* The note (its failures are only logged), c.clickSendButton; on success
\* RecordAction("connection"), saveConnectionRequest, WaitForNextAction,
\* return nil.
SendConnectionRequest_Send ==
    /\ pc = "c_send"
    /\ \E ok \in BOOLEAN :
         IF ok
         THEN /\ Record("connection")
              /\ Return("ok")
         ELSE /\ Return("err")
              /\ UNCHANGED <<stealthVars, now, limiterVars, ev, historyVars, checked, recorded,
                             zeroed, preCount, inWindow>>

\* --- ConnectionManager.SendBulkConnectionRequests
\* The workflow calls it with a list of n profiles.
SendBulkConnectionRequests_Call ==
    /\ pc = "idle"
    /\ \E n \in 0..MaxProfiles : bulk' = n
    /\ pc' = "b_loop"
    /\ op' = "SendBulkConnectionRequests"
    /\ result' = "none"
    /\ tally' = NoTally
    /\ batch' = [NoBatch EXCEPT
                   !.remaining = remaining(checkReset(actionCounts, lastReset, now).actionCounts,
                                           "connection")]
    /\ UNCHANGED <<stealthVars, now, limiterVars, ev, historyVars, checked, recorded, zeroed,
                   preCount, inWindow>>

\* The range loop is over: return sent, failed, nil.  The locals end with the
\* call.
SendBulkConnectionRequests_Done ==
    /\ pc = "b_loop"
    /\ bulk = 0
    /\ pc' = "idle"
    /\ result' = "ok"
    /\ op' = "SendBulkConnectionRequests"
    /\ tally' = NoTally
    /\ batch' = NoBatch
    /\ UNCHANGED <<stealthVars, now, limiterVars, ev, historyVars, bulk, checked, recorded, zeroed,
                   preCount, inWindow>>

\* The loop head: if !CanPerformAction("connection") break; otherwise call
\* c.SendConnectionRequest(profile, customNote).
SendBulkConnectionRequests_Loop ==
    /\ pc = "b_loop"
    /\ bulk > 0
    /\ CanPerformActionCall("connection")
    /\ IF ev'.can
       THEN /\ op' = "SendConnectionRequest"
            /\ pc' = "c_check"
            /\ result' = "none"
            /\ checked' = {}
            /\ recorded' = {}
            /\ zeroed' = {}
            /\ preCount' = actionCounts'["connection"]
            /\ batch' = [batch EXCEPT !.attempted = @ + 1]
            /\ UNCHANGED bulk
       ELSE /\ bulk' = 0
            /\ UNCHANGED <<op, pc, result, batch, checked, recorded, zeroed, preCount>>
    /\ UNCHANGED <<tally, inWindow>>

\* The loop body counting every call as sent.
SendBulkConnectionRequests_Delay_AllSent ==
    /\ pc = "b_delay"
    /\ pc' = "b_loop"
    /\ bulk' = bulk - 1
    /\ op' = "SendBulkConnectionRequests"
    /\ tally' = [tally EXCEPT !.sent = @ + 1]
    /\ batch' = [batch EXCEPT !.records = @ + (IF "connection" \in recorded THEN 1 ELSE 0)]
    /\ UNCHANGED <<stealthVars, now, limiterVars, ev, historyVars, result, checked, recorded, zeroed,
                   preCount, inWindow>>

\* After the call: count sent or failed, ThinkingDelay, WaitForNextAction, on to
\* the next profile.
SendBulkConnectionRequests_Delay ==
    /\ pc = "b_delay"
    /\ pc' = "b_loop"
    /\ bulk' = bulk - 1
    /\ op' = "SendBulkConnectionRequests"
    /\ tally' = IF result = "err"
                THEN [tally EXCEPT !.failed = @ + 1]
                ELSE [tally EXCEPT !.sent = @ + 1]
    /\ batch' = [batch EXCEPT !.records = @ + (IF "connection" \in recorded THEN 1 ELSE 0)]
    /\ UNCHANGED <<stealthVars, now, limiterVars, ev, historyVars, result, checked, recorded, zeroed,
                   preCount, inWindow>>

\* --- MessagingManager.SendFollowUpMessage and SendDirectMessage
\* if !m.rateLimiter.CanPerformAction("message") { return error }
SendMessage_Check ==
    /\ pc = "m_check"
    /\ CanPerformActionCall("message")
    /\ zeroed' = zeroed \cup ZeroedNow
    /\ checked' = IF ev'.can THEN checked \cup {"message"} ELSE checked
    /\ IF ev'.can
       THEN /\ pc' = IF op = "SendFollowUpMessage" THEN "m_dup" ELSE "m_nav"
            /\ UNCHANGED <<op, result, bulk, tally, batch>>
       ELSE Return("err")
    /\ UNCHANGED <<recorded, preCount, inWindow>>

\* SendFollowUpMessage only: m.db.HasSentFollowUpMessage, an already sent
\* follow-up is an error.
SendFollowUpMessage_Duplicate == Effector("m_dup", "m_gen")

\* SendFollowUpMessage only: m.generateFollowUpMessage
SendFollowUpMessage_Generate == Effector("m_gen", "m_nav")

\* m.navigateToProfile
SendMessage_Navigate == Effector("m_nav", "m_click")

\* m.clickMessageButton
SendMessage_ClickMessage == Effector("m_click", "m_type")

\* m.typeAndSendMessage; on success RecordAction("message"), saveMessage,
\* return nil.
SendMessage_TypeAndSend ==
    /\ pc = "m_type"
    /\ \E ok \in BOOLEAN :
         IF ok
         THEN /\ Record("message")
              /\ Return("ok")
         ELSE /\ Return("err")
              /\ UNCHANGED <<stealthVars, now, limiterVars, ev, historyVars, checked, recorded,
                             zeroed, preCount, inWindow>>

NextWorkflow ==
    \/ Tick
    \/ Call
    \/ Resume
    \/ Search_Check
    \/ Search_Navigate
    \/ Search_WaitLoad
    \/ Search_Collect
    \/ SendConnectionRequest_Check
    \/ SendConnectionRequest_Limited
    \/ SendConnectionRequest_Duplicate
    \/ SendConnectionRequest_Navigate
    \/ SendConnectionRequest_ClickConnect
    \/ SendConnectionRequest_Send
    \/ SendBulkConnectionRequests_Call
    \/ SendBulkConnectionRequests_Done
    \/ SendBulkConnectionRequests_Loop
    \/ SendBulkConnectionRequests_Delay
    \/ SendMessage_Check
    \/ SendFollowUpMessage_Duplicate
    \/ SendFollowUpMessage_Generate
    \/ SendMessage_Navigate
    \/ SendMessage_ClickMessage
    \/ SendMessage_TypeAndSend

\* One workflow thread that runs the operations one after another while time
\* passes; the limiter is reached through the operations only.
SpecWorkflow == Init /\ [][NextWorkflow]_vars

\* ------------------------------------------------------ claims on the limiter
\* The two quota checks, which both start with checkReset.
Checks == {"CanPerformAction", "GetRemainingActions"}

\* The instant t lies in the calendar day and clock hour of the instant u.
SameWindow(t, u) == Day(t) = Day(u) /\ Hour(t) = Hour(u)

\* C1: CanPerformAction(category) returns false exactly when, after its
\* rollover check, the counter of one of the four known categories is >= the
\* configured limit of that category; for any other category string it
\* returns true however often RecordAction was called for it.
C1_CanPerformAction ==
    ev.op = "CanPerformAction" =>
        ev.can = (IF ev.arg = "connection" THEN actionCounts["connection"] < MaxConnectionsPerDay
                  ELSE IF ev.arg = "message" THEN actionCounts["message"] < MaxMessagesPerDay
                  ELSE IF ev.arg = "profile_view" THEN actionCounts["profile_view"] < MaxProfileViewsPerDay
                  ELSE IF ev.arg = "search" THEN actionCounts["search"] < MaxSearchesPerHour
                  ELSE TRUE)

\* C1 witness: a connection check refused at exactly the limit, while the
\* unknown category has been recorded up to the cap.
C1_Witness ==
    /\ ev.op = "CanPerformAction"
    /\ ev.arg = "connection"
    /\ ~ev.can
    /\ actionCounts["connection"] = MaxConnectionsPerDay
    /\ actionCounts["other"] = MaxCount

\* C2: RecordAction(c) adds exactly 1 to the counter of c, sets lastAction to
\* the current time and leaves every other counter and the reset marker
\* alone; and a quota check with no rollover boundary crossed changes no
\* counter and answers false / 0 for a category whose counter stands exactly
\* at its limit (so limit(c) RecordAction(c) calls on a fresh limiter
\* exhaust c and nothing else).
C2_RecordAction ==
    [][/\ ev'.op = "RecordAction" =>
            /\ actionCounts'[ev'.arg] = actionCounts[ev'.arg] + 1
            /\ \A k \in Categories \ {ev'.arg} : actionCounts'[k] = actionCounts[k]
            /\ lastAction' = now
            /\ lastReset' = lastReset
       /\ (ev'.op \in Checks /\ SameWindow(now, lastReset)) =>
            /\ actionCounts' = actionCounts
            /\ lastReset' = lastReset
            /\ (ev'.arg \in KnownCategories /\ actionCounts[ev'.arg] = Limit(ev'.arg)) =>
                 /\ ev'.op = "CanPerformAction" => ~ev'.can
                 /\ ev'.op = "GetRemainingActions" => ev'.rem = 0
      ]_vars

\* C2 witness: on a limiter whose clock has not moved since construction the
\* connection quota was recorded full and is refused, message is untouched.
C2_Witness ==
    /\ ev.op = "GetRemainingActions"
    /\ ev.arg = "connection"
    /\ ev.rem = 0
    /\ actionCounts["connection"] = MaxConnectionsPerDay
    /\ actionCounts["message"] = 0
    /\ lastAction = now
    /\ lastReset = now
    /\ Day(now) = 0

\* C6 (as claimed): a quota check made in a clock hour later than that of the
\* last search reset zeroes the search counter, and a check in the clock hour
\* of the last search reset leaves the search counter as it is.
C6_HourlyRollover ==
    [][ev'.op \in Checks =>
         /\ ~searchResetInHour => actionCounts'["search"] = 0
         /\ searchResetInHour => actionCounts'["search"] = actionCounts["search"]
      ]_vars

\* C7: a quota check on a calendar day other than that of the reset marker
\* zeroes the connection, message and profile_view counters and sets the
\* marker to the current time; a check on the marker's day changes none of
\* the three.
C7_DailyRollover ==
    [][ev'.op \in Checks =>
         IF Day(now) # Day(lastReset)
         THEN /\ \A k \in DailyCategories : actionCounts'[k] = 0
              /\ lastReset' = now
         ELSE \A k \in DailyCategories : actionCounts'[k] = actionCounts[k]
      ]_vars

\* C7 witness: a check has just rolled the day over: the marker stands at the
\* current time on a later day than any RecordAction, and the daily counters
\* are zero.
C7_Witness ==
    /\ ev.op \in Checks
    /\ lastReset = now
    /\ Day(now) > Day(lastAction)
    /\ checkedInHour
    /\ \A k \in DailyCategories : actionCounts[k] = 0
    /\ actionCounts["other"] > 0

\* C8 (as claimed): a rollover check in the calendar day and clock hour of
\* the previous rollover check changes no counter and no reset marker,
\* whatever was recorded in between.
C8_CheckIdempotent ==
    [][(ev'.op \in Checks /\ checkedInHour) =>
         (actionCounts' = actionCounts /\ lastReset' = lastReset)
      ]_vars

\* C10: for a known category GetRemainingActions returns the literal
\* difference limit - counter (after its rollover check), negative when the
\* counter is over the limit; and for every category its result is > 0
\* exactly when CanPerformAction, called at that moment, returns true.
C10_GetRemainingActions ==
    ev.op = "GetRemainingActions" =>
        /\ ev.arg \in KnownCategories => ev.rem = Limit(ev.arg) - actionCounts[ev.arg]
        /\ LET r == checkReset(actionCounts, lastReset, now)
           IN (ev.rem > 0) <=> canPerform(r.actionCounts, ev.arg)

\* C10 witness: a known category over its limit reports a negative rest.
C10_Witness ==
    /\ ev.op = "GetRemainingActions"
    /\ ev.arg = "message"
    /\ actionCounts["message"] > MaxMessagesPerDay
    /\ ev.rem < 0

\* ---------------------------------------------------- claims on the workflows
\* C3 (as claimed): the RecordAction("search") events that fall in one clock
\* hour never number more than MaxSearchesPerHour.
C3_SearchesPerHour == inWindow["search"] <= MaxSearchesPerHour

\* C4 (as claimed): the RecordAction("connection") events that fall in one
\* calendar day never number more than MaxConnectionsPerDay, and the
\* RecordAction("message") events of one day never more than
\* MaxMessagesPerDay.
C4_DailyLimits ==
    /\ inWindow["connection"] <= MaxConnectionsPerDay
    /\ inWindow["message"] <= MaxMessagesPerDay

\* C5 (as claimed): every category an operation passes to RecordAction was,
\* earlier in that operation, allowed by a CanPerformAction call for that
\* same category.
C5_RecordAfterCheck == recorded \subseteq checked

\* C9 (as claimed): when an operation returns an error the counter of its own
\* category has the value it had before the call.  Stated for the operations
\* behind a daily quota (SendConnectionRequest, SendFollowUpMessage,
\* SendDirectMessage), whose rollover works as designed; Search fails it too.
C9_ErrorKeepsCounter ==
    (pc = "ret" /\ result = "err" /\ Own(op) \in DailyCategories) =>
        actionCounts[Own(op)] = preCount

\* C9 (amended): when an operation returns an error it made no RecordAction
\* for its own category: that counter has the value it had before the call,
\* or is 0 when a rollover check inside the call zeroed it.
C9_ErrorNoRecord ==
    (pc = "ret" /\ result = "err") =>
        actionCounts[Own(op)] = (IF Own(op) \in zeroed THEN 0 ELSE preCount)

\* C9 witness: SendConnectionRequest fails after its profile view was
\* recorded, with earlier connections on the counter, which it leaves alone.
C9_Witness ==
    /\ pc = "ret"
    /\ result = "err"
    /\ op = "SendConnectionRequest"
    /\ "profile_view" \in recorded
    /\ preCount > 0
    /\ actionCounts["connection"] = preCount

\* C29: when SendBulkConnectionRequests returns, sent + failed is the number
\* of profiles it called SendConnectionRequest for, sent is the number of
\* RecordAction("connection") events those calls made, sent is at most what
\* GetRemainingActions("connection") gave at the start unless a calendar day
\* began during the batch, and the error returned is nil.  The loop goes on to
\* the next profile after a failed one and ends at the first refusal of
\* CanPerformAction("connection").
C29_BulkTally ==
    [][/\ (pc = "b_loop" /\ bulk > 0 /\ ev'.op = "CanPerformAction") =>
             IF ev'.can
             THEN op' = "SendConnectionRequest" /\ batch'.attempted = batch.attempted + 1
             ELSE bulk' = 0 /\ batch' = batch
       /\ (pc = "b_delay" /\ pc' # pc) => (pc' = "b_loop" /\ bulk' = bulk - 1)
       /\ (pc = "b_loop" /\ pc' = "idle") =>
             /\ tally.sent + tally.failed = batch.attempted
             /\ tally.sent = batch.records
             /\ ~batch.rolled => tally.sent <= batch.remaining
             /\ result' = "ok"
      ]_vars

\* A batch about to return that sent one request and failed another.
C29_Witness ==
    /\ pc = "b_loop"
    /\ bulk = 0
    /\ tally = [sent |-> 1, failed |-> 1]
    /\ ~batch.rolled

\* ------------------------------------------------------- WaitForNextAction
\* targetDelay := minDelay + Int63n(maxDelay - minDelay): the delays it can
\* draw (none when Int63n panics).
targetDelays(c) ==
    IF IntnPanics(c.MaxDelayBetweenActions - c.MinDelayBetweenActions)
    THEN {}
    ELSE {c.MinDelayBetweenActions + k :
            k \in Intn(c.MaxDelayBetweenActions - c.MinDelayBetweenActions)}

\* WaitForNextAction sleeping one tick less than the rest of the target.
waitForNextAction_SleepsShort(action, t, d) ==
    [elapsed |-> t - action, targetDelay |-> d,
     sleepTime |-> IF t - action < d THEN d - (t - action) - 1 ELSE 0]

\* The locals of WaitForNextAction called at time t with the draw d: elapsed
\* := time.Since(r.lastAction), and sleepTime := targetDelay - elapsed when
\* elapsed < targetDelay (0 stands for no time.Sleep call).
waitForNextAction(action, t, d) ==
    [elapsed |-> t - action, targetDelay |-> d,
     sleepTime |-> IF t - action < d THEN d - (t - action) ELSE 0]

\* The thread calls r.WaitForNextAction(): the draw panics, or the call
\* returns at once, or it goes to sleep.
WaitForNextAction_Call ==
    /\ pc = "idle"
    /\ op' = "WaitForNextAction"
    /\ IF targetDelays(config) = {}
       THEN /\ pc' = "panic"
            /\ result' = "panic"
            /\ UNCHANGED <<wait, ev>>
       ELSE \E d \in targetDelays(config) :
              /\ wait' = waitForNextAction(lastAction, now, d)
              /\ IF wait'.sleepTime > 0
                 THEN /\ pc' = "w_sleep"
                      /\ ev' = [op |-> "time.Sleep", arg |-> "other", can |-> TRUE, rem |-> 0]
                      /\ UNCHANGED result
                 ELSE /\ pc' = "idle"
                      /\ result' = "ok"
                      /\ ev' = [op |-> "WaitForNextAction", arg |-> "other",
                                can |-> TRUE, rem |-> 0]
    /\ UNCHANGED <<now, limiterVars, historyVars, bulk, tally, batch, checked, recorded, zeroed,
                   preCount, inWindow, config, schedulerVars, typingVars, deviceVars>>

\* time.Sleep(sleepTime) is over (at the earliest sleepTime after the call):
\* WaitForNextAction returns.
WaitForNextAction_Wake ==
    /\ pc = "w_sleep"
    /\ now >= lastAction + wait.elapsed + wait.sleepTime
    /\ pc' = "idle"
    /\ result' = "ok"
    /\ ev' = [op |-> "WaitForNextAction", arg |-> "other", can |-> TRUE, rem |-> 0]
    /\ UNCHANGED <<now, limiterVars, historyVars, op, bulk, tally, batch, checked, recorded, zeroed,
                   preCount, inWindow, stealthVars>>

\* Between two waits the thread records an action.
Wait_RecordAction ==
    /\ pc = "idle"
    /\ \E actionType \in {"connection", "search"} : RecordAction(actionType)

\* NewRateLimiter with any pair of delays the YAML file can give.
InitWait ==
    /\ NewRateLimiter(0)
    /\ Thread("idle", "none")
    /\ config \in {[RunConfig EXCEPT !.MinDelayBetweenActions = lo,
                                     !.MaxDelayBetweenActions = hi] :
                     lo \in 0..MaxDelay, hi \in 0..MaxDelay}
    /\ NoSession
    /\ NoTyping
    /\ NoDevice

NextWait ==
    \/ Tick
    \/ Wait_RecordAction
    \/ WaitForNextAction_Call
    \/ WaitForNextAction_Wake

\* One thread that records actions and paces itself with WaitForNextAction.
SpecWait == InitWait /\ [][NextWait]_vars

\* C11: WaitForNextAction draws a target delay d with MinDelayBetweenActions
\* <= d <= MaxDelayBetweenActions and returns only once at least d has
\* elapsed since lastAction; when d has already elapsed at the call it
\* returns without sleeping; and it changes no counter, no reset marker and
\* not lastAction.
C11_WaitForNextAction ==
    [][/\ ev'.op = "WaitForNextAction" =>
            /\ wait'.targetDelay >= config.MinDelayBetweenActions
            /\ wait'.targetDelay <= config.MaxDelayBetweenActions
            /\ now' - lastAction' >= wait'.targetDelay
            /\ wait'.elapsed >= wait'.targetDelay => (pc = "idle" /\ wait'.sleepTime = 0)
       /\ (pc = "w_sleep" \/ pc' = "w_sleep" \/ ev'.op = "WaitForNextAction") =>
            /\ actionCounts' = actionCounts
            /\ lastReset' = lastReset
            /\ lastAction' = lastAction
      ]_vars

\* C11 witness: a call made after an action was recorded and some of the
\* target had passed has slept the rest and returned.
C11_Witness ==
    /\ ev.op = "WaitForNextAction"
    /\ wait.sleepTime > 0
    /\ wait.elapsed > 0
    /\ actionCounts["connection"] > 0
    /\ now - lastAction >= wait.targetDelay

\* ---------------------------------------------------------------- Scheduler
\* The scheduler reads of time.Now() its weekday and its local hour only, so
\* its clock is the slot of the week, starting at Sunday 00:00.
WeekSlots == 7 * 24 * PollsPerHour

\* time.Sunday and time.Saturday.
Sunday == 0
Saturday == 6

\* now.Weekday() of a slot.
Weekday(w) == w \div (24 * PollsPerHour)

\* now.Hour() of a slot.
LocalHour(w) == (w \div PollsPerHour) % 24

\* IsWithinOperatingHours with EndHour as the last operating hour.
isWithinOperatingHours_Inclusive(c, w) ==
    IF ~c.Enabled THEN TRUE
    ELSE IF c.WorkDaysOnly /\ (Weekday(w) = Saturday \/ Weekday(w) = Sunday) THEN FALSE
    ELSE IF LocalHour(w) < c.StartHour \/ LocalHour(w) > c.EndHour THEN FALSE
    ELSE TRUE

\* The value IsWithinOperatingHours returns under schedule c at slot w.
isWithinOperatingHours(c, w) ==
    IF ~c.Enabled THEN TRUE
    ELSE IF c.WorkDaysOnly /\ (Weekday(w) = Saturday \/ Weekday(w) = Sunday) THEN FALSE
    ELSE IF LocalHour(w) < c.StartHour \/ LocalHour(w) >= c.EndHour THEN FALSE
    ELSE TRUE

\* The positions at which the thread is blocked in a time.Sleep: of
\* WaitForOperatingHours, TakeBreak and EnforceCooldown.
Sleeps == {"wfo_sleep", "brk_sleep", "cd_sleep"}

\* Where WaitForOperatingHours returns to: Run, the loop of runFullWorkflow,
\* or a caller of its own.
ReturnTo(o) ==
    CASE o = "Run" -> "launch"
      [] o = "runFullWorkflow" -> "steps"
      [] OTHER -> "idle"

\* The wall clock moves on by a slot.  A check of the schedule takes no time
\* against a slot: time passes while the thread sleeps, is idle, is busy with
\* the steps of a cycle, or is gone.
Clock ==
    /\ proc # "exited"
    /\ \/ pc \in {"idle", "steps", "done", "panic"}
       \/ pc \in Sleeps /\ sleepLeft > 0
    /\ wall' = (wall + 1) % WeekSlots
    /\ sleepLeft' = IF sleepLeft > 0 THEN sleepLeft - 1 ELSE 0
    /\ elapsed' = IF op = "runFullWorkflow" /\ elapsed <= MaxSession
                  THEN elapsed + 1
                  ELSE elapsed
    /\ ev' = [op |-> "Clock", arg |-> "other", can |-> TRUE, rem |-> 0]
    /\ UNCHANGED <<now, limiterVars, historyVars, workflowVars, config, wait, proc, closed,
                   typingVars, deviceVars>>

\* A client calls s.IsWithinOperatingHours().
IsWithinOperatingHours ==
    /\ pc = "idle"
    /\ proc # "exited"
    /\ ev' = [op |-> "IsWithinOperatingHours", arg |-> "other",
              can |-> isWithinOperatingHours(config, wall), rem |-> 0]
    /\ UNCHANGED <<now, limiterVars, historyVars, workflowVars, stealthVars>>

\* A client calls s.WaitForOperatingHours().
WaitForOperatingHours_Call ==
    /\ pc = "idle"
    /\ proc # "exited"
    /\ pc' = "wfo_check"
    /\ op' = "WaitForOperatingHours"
    /\ result' = "none"
    /\ UNCHANGED <<now, limiterVars, ev, historyVars, bulk, tally, batch, checked, recorded, zeroed,
                   preCount, inWindow, stealthVars>>

\* for !s.IsWithinOperatingHours(): the loop ends and WaitForOperatingHours
\* returns, or time.Sleep(5 * time.Minute) starts.
WaitForOperatingHours_Check ==
    /\ pc = "wfo_check"
    /\ proc # "exited"
    /\ IF isWithinOperatingHours(config, wall)
       THEN /\ pc' = ReturnTo(op)
            /\ result' = "ok"
            /\ ev' = [op |-> "WaitForOperatingHours", arg |-> "other",
                      can |-> TRUE, rem |-> 0]
            /\ UNCHANGED sleepLeft
       ELSE /\ pc' = "wfo_sleep"
            /\ sleepLeft' = 1
            /\ ev' = [op |-> "time.Sleep", arg |-> "other", can |-> FALSE, rem |-> 0]
            /\ UNCHANGED result
    /\ UNCHANGED <<now, limiterVars, historyVars, op, bulk, tally, batch, checked, recorded, zeroed,
                   preCount, inWindow, config, wait, wall, elapsed, proc, closed, typingVars, deviceVars>>

\* The 5 minutes are over: back to the loop condition.
WaitForOperatingHours_Wake ==
    /\ pc = "wfo_sleep"
    /\ proc # "exited"
    /\ sleepLeft = 0
    /\ pc' = "wfo_check"
    /\ UNCHANGED <<now, limiterVars, ev, historyVars, op, result, bulk, tally, batch, checked,
                   recorded, zeroed, preCount, inWindow, stealthVars>>

\* The hours of the schedules of TestScheduler and DefaultConfig.
ScheduleHours == {0, 9, 18, 23}

\* NewScheduler with any schedule over these hours, at any slot of the week.
InitScheduler ==
    /\ NewRateLimiter(0)
    /\ Thread("idle", "none")
    /\ config \in {[RunConfig EXCEPT !.Enabled = e, !.WorkDaysOnly = d,
                                     !.StartHour = sh, !.EndHour = eh] :
                     e \in BOOLEAN, d \in BOOLEAN,
                     sh \in ScheduleHours, eh \in ScheduleHours}
    /\ wait = NoWait
    /\ wall \in 0..(WeekSlots - 1)
    /\ sleepLeft = 0
    /\ elapsed = 0
    /\ proc = "running"
    /\ closed = NoClose
    /\ NoTyping
    /\ NoDevice

NextScheduler ==
    \/ Clock
    \/ IsWithinOperatingHours
    \/ WaitForOperatingHours_Call
    \/ WaitForOperatingHours_Check
    \/ WaitForOperatingHours_Wake

\* A client of the scheduler while the week goes round.
SpecScheduler == InitScheduler /\ [][NextScheduler]_vars

\* The same, with a clock that keeps moving and a thread that keeps running.
SpecSchedulerFair ==
    /\ SpecScheduler
    /\ WF_vars(Clock)
    /\ WF_vars(WaitForOperatingHours_Check)
    /\ WF_vars(WaitForOperatingHours_Wake)

\* C12 (as claimed): with the schedule {enabled: true, startHour: 0, endHour:
\* 23, workDaysOnly: false} IsWithinOperatingHours returns true at every
\* local hour of the day, 0 through 23.
C12_AllDaySchedule ==
    ( /\ ev.op = "IsWithinOperatingHours"
      /\ config.Enabled
      /\ config.StartHour = 0
      /\ config.EndHour = 23
      /\ ~config.WorkDaysOnly ) => ev.can

C14_EventuallyReturns ==
    (pc = "wfo_check" /\ validate(config) = "nil") ~> (pc = "idle")

\* ------------------------------------------- the session of runFullWorkflow
\* ShouldTakeBreak with the test elapsed >= maxSession.
shouldTakeBreak_AtLimit(c, e, k) ==
    IF e >= c.SessionMaxMin THEN TRUE
    ELSE IF c.SessionMaxMin = 0 THEN FALSE
    ELSE 10 * c.SessionMaxMin * k < 3 * e * RandSteps

\* The value ShouldTakeBreak returns when e has elapsed since sessionStart and
\* rand.Float64() draws k / RandSteps: true beyond the maximum, otherwise
\* draw < elapsed / SessionMaxMin * 0.3 (with SessionMaxMin 0 the chance is
\* 0 / 0, not a number, and the comparison is false).
shouldTakeBreak(c, e, k) ==
    IF e > c.SessionMaxMin THEN TRUE
    ELSE IF c.SessionMaxMin = 0 THEN FALSE
    ELSE 10 * c.SessionMaxMin * k < 3 * e * RandSteps

\* breakDuration := BreakMinMin + Intn(BreakMinMax - BreakMinMin + 1): the
\* lengths TakeBreak can draw (none when Intn panics).
breakDurations(c) ==
    IF IntnPanics(c.BreakMinMax - c.BreakMinMin + 1)
    THEN {}
    ELSE {c.BreakMinMin + k : k \in Intn(c.BreakMinMax - c.BreakMinMin + 1)}

\* A step of the workflow thread from position from: the process is alive and
\* nothing but the listed variables changes.
Step(from) ==
    /\ pc = from
    /\ proc # "exited"
    /\ UNCHANGED <<now, limiterVars, historyVars, bulk, tally, batch, checked, recorded, zeroed,
                   preCount, inWindow, config, wait, wall, typingVars, deviceVars>>

\* Run: if app.config.Schedule.Enabled { app.scheduler.WaitForOperatingHours() }
Run_Gate ==
    /\ Step("run")
    /\ pc' = IF config.Enabled THEN "wfo_check" ELSE "launch"
    /\ UNCHANGED <<op, result, ev, sleepLeft, elapsed, proc, closed>>

\* Run: browser.Launch.  A failure makes Run return the error, before the
\* defer, and main end the process with os.Exit(1).
Run_Launch ==
    /\ Step("launch")
    /\ \E ok \in BOOLEAN :
         IF ok
         THEN /\ pc' = "login"
              /\ UNCHANGED <<result, proc>>
         ELSE /\ pc' = "done"
              /\ result' = "err"
              /\ proc' = "exited"
    /\ UNCHANGED <<op, ev, sleepLeft, elapsed, closed>>

\* Run: defer app.Close(), the page references, Login, showDailyStats; then
\* runFullWorkflow and its sessionStart := time.Now().  A failure of Login
\* makes Run return the error through the deferred Close.
Run_Login ==
    /\ Step("login")
    /\ \E ok \in BOOLEAN :
         IF ok
         THEN /\ op' = "runFullWorkflow"
              /\ pc' = "brk_check"
              /\ elapsed' = 0
              /\ UNCHANGED result
         ELSE /\ pc' = "close_browser"
              /\ result' = "err"
              /\ UNCHANGED <<op, elapsed>>
    /\ UNCHANGED <<ev, sleepLeft, proc, closed>>

\* The deferred app.Close() on the workflow thread: app.browser.Close().
Close_Browser ==
    /\ Step("close_browser")
    /\ closed' = [closed EXCEPT !.browser = @ + 1]
    /\ pc' = "close_db"
    /\ UNCHANGED <<op, result, ev, sleepLeft, elapsed, proc>>

\* The deferred app.Close() on the workflow thread: app.db.Close(); Run has
\* returned its error and main ends the process with os.Exit(1).
Close_Database ==
    /\ Step("close_db")
    /\ closed' = [closed EXCEPT !.db = @ + 1]
    /\ pc' = "done"
    /\ proc' = "exited"
    /\ UNCHANGED <<op, result, ev, sleepLeft, elapsed>>

\* if app.scheduler.ShouldTakeBreak(sessionStart)
ShouldTakeBreak ==
    /\ Step("brk_check")
    /\ \E k \in Intn(RandSteps) :
         /\ ev' = [op |-> "ShouldTakeBreak", arg |-> "other",
                   can |-> shouldTakeBreak(config, elapsed, k), rem |-> 0]
         /\ pc' = IF ev'.can THEN "brk_take" ELSE "hrs_check"
    /\ UNCHANGED <<op, result, sleepLeft, elapsed, proc, closed>>

\* app.scheduler.TakeBreak(): the draw, then time.Sleep(breakDuration).
TakeBreak ==
    /\ Step("brk_take")
    /\ IF breakDurations(config) = {}
       THEN /\ pc' = "panic"
            /\ result' = "panic"
            /\ UNCHANGED sleepLeft
       ELSE /\ \E d \in breakDurations(config) : sleepLeft' = d
            /\ pc' = "brk_sleep"
            /\ UNCHANGED result
    /\ ev' = [op |-> "time.Sleep", arg |-> "other", can |-> TRUE, rem |-> 0]
    /\ UNCHANGED <<op, elapsed, proc, closed>>

\* TakeBreak_Wake_KeepsStart returns from the break with sessionStart as it
\* was.
TakeBreak_Wake_KeepsStart ==
    /\ Step("brk_sleep")
    /\ sleepLeft = 0
    /\ pc' = "hrs_check"
    /\ UNCHANGED <<op, result, ev, sleepLeft, elapsed, proc, closed>>

\* The break is over: TakeBreak returns and sessionStart = time.Now().
TakeBreak_Wake ==
    /\ Step("brk_sleep")
    /\ sleepLeft = 0
    /\ elapsed' = 0
    /\ pc' = "hrs_check"
    /\ UNCHANGED <<op, result, ev, sleepLeft, proc, closed>>

\* if !app.scheduler.IsWithinOperatingHours() { WaitForOperatingHours() }
runFullWorkflow_Gate ==
    /\ Step("hrs_check")
    /\ ev' = [op |-> "IsWithinOperatingHours", arg |-> "other",
              can |-> isWithinOperatingHours(config, wall), rem |-> 0]
    /\ pc' = IF ev'.can THEN "steps" ELSE "wfo_check"
    /\ UNCHANGED <<op, result, sleepLeft, elapsed, proc, closed>>

\* Steps 1 to 3 of the cycle and showDailyStats; their errors are logged
\* only.  (What the steps do to the governor is the subject of SpecWorkflow.)
runFullWorkflow_Steps ==
    /\ Step("steps")
    /\ pc' = "cooldown"
    /\ UNCHANGED <<op, result, ev, sleepLeft, elapsed, proc, closed>>

\* app.rateLimiter.EnforceCooldown(): time.Sleep(CooldownMinutes).
EnforceCooldown ==
    /\ Step("cooldown")
    /\ sleepLeft' = config.CooldownMinutes
    /\ pc' = "cd_sleep"
    /\ ev' = [op |-> "time.Sleep", arg |-> "other", can |-> TRUE, rem |-> 0]
    /\ UNCHANGED <<op, result, elapsed, proc, closed>>

\* The cooldown is over: the next cycle starts.
EnforceCooldown_Wake ==
    /\ Step("cd_sleep")
    /\ sleepLeft = 0
    /\ pc' = "brk_check"
    /\ UNCHANGED <<op, result, ev, sleepLeft, elapsed, proc, closed>>

\* SIGINT or SIGTERM arrives: signal.Notify puts it into sigChan.
Signal ==
    /\ proc = "running"
    /\ proc' = "signalled"
    /\ UNCHANGED <<closed, now, limiterVars, ev, historyVars, workflowVars, config, wait, wall,
                   sleepLeft, elapsed, typingVars, deviceVars>>

\* A handler that closes the application only once the workflow thread is
\* out of its sleep.
Shutdown_Close_AfterSleep ==
    /\ proc = "signalled"
    /\ pc \notin Sleeps
    /\ proc' = "closed"
    /\ closed' = [browser |-> closed.browser + 1, db |-> closed.db + 1]
    /\ UNCHANGED <<now, limiterVars, ev, historyVars, workflowVars, config, wait, wall,
                   sleepLeft, elapsed, typingVars, deviceVars>>

\* The handler goroutine: sig := <-sigChan, then app.Close().
Shutdown_Close ==
    /\ proc = "signalled"
    /\ proc' = "closed"
    /\ closed' = [browser |-> closed.browser + 1, db |-> closed.db + 1]
    /\ UNCHANGED <<now, limiterVars, ev, historyVars, workflowVars, config, wait, wall,
                   sleepLeft, elapsed, typingVars, deviceVars>>

\* The handler goroutine: os.Exit(0).
Shutdown_Exit ==
    /\ proc = "closed"
    /\ proc' = "exited"
    /\ UNCHANGED <<closed, now, limiterVars, ev, historyVars, workflowVars, config, wait, wall,
                   sleepLeft, elapsed, typingVars, deviceVars>>

\* main has installed the handler and calls Run, at any slot of the week,
\* with any session length the YAML file can give.
InitSession ==
    /\ NewRateLimiter(0)
    /\ Thread("run", "Run")
    /\ config \in {[RunConfig EXCEPT !.SessionMaxMin = m] : m \in (-1)..MaxSession}
    /\ wait = NoWait
    /\ wall \in 0..(WeekSlots - 1)
    /\ sleepLeft = 0
    /\ elapsed = 0
    /\ proc = "running"
    /\ closed = NoClose
    /\ NoTyping
    /\ NoDevice

NextSession ==
    \/ Clock
    \/ Run_Gate
    \/ Run_Launch
    \/ Run_Login
    \/ Close_Browser
    \/ Close_Database
    \/ ShouldTakeBreak
    \/ TakeBreak
    \/ TakeBreak_Wake
    \/ runFullWorkflow_Gate
    \/ WaitForOperatingHours_Check
    \/ WaitForOperatingHours_Wake
    \/ runFullWorkflow_Steps
    \/ EnforceCooldown
    \/ EnforceCooldown_Wake
    \/ Signal
    \/ Shutdown_Close
    \/ Shutdown_Exit

\* The process in mode "full": the workflow thread and the signal handler.
SpecSession == InitSession /\ [][NextSession]_vars

\* The same, with a handler goroutine that runs once a signal is in its
\* channel.  Nothing is assumed of the clock or of the workflow thread.
SpecSessionFair ==
    /\ SpecSession
    /\ WF_vars(Shutdown_Close)
    /\ WF_vars(Shutdown_Exit)


\* The positions at which the workflow thread works on the browser page and
\* the database: Login, and the steps of a cycle.
InUse == {"login", "steps"}

\* C30: Application.Close runs at most once per process, never while the
\* workflow thread is using the browser and the database, and never twice at
\* a time: whatever the interleaving of the workflow thread (Run with its
\* deferred Close) and the handler goroutine (Close, then exit), the browser
\* and the database are each closed at most once, and both once when the
\* process has exited after a Close.
C30_CloseOnce ==
    /\ closed.browser <= 1
    /\ closed.db <= 1
    /\ (closed.browser > 0 /\ proc # "exited") => pc \notin InUse
    /\ (proc = "exited" /\ closed # NoClose) => closed = [browser |-> 1, db |-> 1]

\* C15: when SIGINT or SIGTERM arrives while the workflow thread is blocked
\* in the sleep of WaitForOperatingHours, EnforceCooldown or TakeBreak, the
\* process cleans up and exits, whether or not that sleep ever ends.
C15_ShutdownInterruptsSleep ==
    (proc = "signalled" /\ pc \in Sleeps) ~> (proc = "exited")

\* C15 witness: the process has exited on a signal with the workflow thread
\* still inside the 5 minute sleep of WaitForOperatingHours.
C15_Witness ==
    /\ proc = "exited"
    /\ pc = "wfo_sleep"
    /\ sleepLeft > 0
    /\ result = "none"

\* C16: ShouldTakeBreak returns true for every random draw when the time
\* elapsed since sessionStart is greater than SessionMaxMin, and false for
\* every draw when the elapsed time is exactly 0 (and not greater than
\* SessionMaxMin).
C16_ShouldTakeBreak ==
    [][(pc = "brk_check" /\ pc' # "brk_check") =>
          /\ ev'.op = "ShouldTakeBreak"
          /\ elapsed > config.SessionMaxMin => ev'.can
          /\ (elapsed = 0 /\ ~(elapsed > config.SessionMaxMin)) => ~ev'.can
      ]_vars

\* C16 witness: a session older than a positive SessionMaxMin has been sent
\* to its break.
C16_Witness ==
    /\ pc = "brk_take"
    /\ ev.op = "ShouldTakeBreak"
    /\ ev.can
    /\ config.SessionMaxMin > 0
    /\ elapsed > config.SessionMaxMin

\* The order of a cycle of runFullWorkflow, as steps of the thread from one
\* position to the next: break check, break, operating-hours gate (and the
\* wait behind it), steps 1 to 3, cooldown, and round again.
CycleOrder ==
    {<<"brk_check", "brk_take">>, <<"brk_check", "hrs_check">>,
     <<"brk_take", "brk_sleep">>, <<"brk_sleep", "hrs_check">>,
     <<"hrs_check", "steps">>, <<"hrs_check", "wfo_check">>,
     <<"wfo_check", "wfo_sleep">>, <<"wfo_sleep", "wfo_check">>,
     <<"wfo_check", "steps">>,
     <<"steps", "cooldown">>, <<"cooldown", "cd_sleep">>,
     <<"cd_sleep", "brk_check">>}

\* C26: every cycle of runFullWorkflow runs break check, operating-hours
\* gate, steps, cooldown in this order; sessionStart is set to the current
\* time right after every TakeBreak and at no other time; the steps begin only
\* on an IsWithinOperatingHours check that returned true, made after the
\* break of the cycle if there was one; and the only way from the steps of one
\* cycle to the steps of the next leads through one EnforceCooldown.
C26_CycleOrder ==
    [][op = "runFullWorkflow" =>
          /\ pc' # pc => <<pc, pc'>> \in CycleOrder
          /\ (pc = "brk_sleep" /\ pc' # pc) => elapsed' = 0
          /\ elapsed' < elapsed => (pc = "brk_sleep" /\ pc' = "hrs_check")
          /\ (pc' = "steps" /\ pc # "steps") =>
                /\ ev'.op \in {"IsWithinOperatingHours", "WaitForOperatingHours"}
                /\ ev'.can
                /\ isWithinOperatingHours(config, wall)
                /\ wall' = wall
      ]_vars

\* C26 witness: a later cycle whose gate found the hours closed has waited
\* and begins its steps.
C26_Witness ==
    /\ op = "runFullWorkflow"
    /\ pc = "steps"
    /\ ev.op = "WaitForOperatingHours"
    /\ elapsed > 0

\* ---------------------------------------------------------------- HumanType
\* Characters are runes, written as their code points: 'a' is 97, 'z' 122,
\* 'A' 65, 'Z' 90.
\* input.Backspace, the key HumanType presses to delete.
Backspace == 8

\* The adjacentKeys map of getAdjacentKey, 'a' to 'z' (QWERTY neighbours).
adjacentKeys ==
       97 :> <<115, 113, 122>>
    @@ 98 :> <<118, 110, 103, 104>>
    @@ 99 :> <<120, 118, 100, 102>>
    @@ 100 :> <<115, 102, 101, 114, 99, 120>>
    @@ 101 :> <<119, 114, 100, 115>>
    @@ 102 :> <<100, 103, 114, 116, 118, 99>>
    @@ 103 :> <<102, 104, 116, 121, 98, 118>>
    @@ 104 :> <<103, 106, 121, 117, 110, 98>>
    @@ 105 :> <<117, 111, 107, 106>>
    @@ 106 :> <<104, 107, 117, 105, 109, 110>>
    @@ 107 :> <<106, 108, 105, 111, 109>>
    @@ 108 :> <<107, 111, 112>>
    @@ 109 :> <<110, 106, 107>>
    @@ 110 :> <<98, 109, 104, 106>>
    @@ 111 :> <<105, 112, 107, 108>>
    @@ 112 :> <<111, 108>>
    @@ 113 :> <<119, 97>>
    @@ 114 :> <<101, 116, 100, 102>>
    @@ 115 :> <<97, 100, 119, 101, 122, 120>>
    @@ 116 :> <<114, 121, 102, 103>>
    @@ 117 :> <<121, 105, 104, 106>>
    @@ 118 :> <<99, 98, 102, 103>>
    @@ 119 :> <<113, 101, 97, 115>>
    @@ 120 :> <<122, 99, 115, 100>>
    @@ 121 :> <<116, 117, 103, 104>>
    @@ 122 :> <<97, 120>>

\* getAdjacentKey that returns the neighbour as the map has it, in lower case.
getAdjacentKey_LowerCase(char) ==
    LET lowerChar == IF char >= 65 /\ char <= 90 THEN char + 32 ELSE char
    IN IF lowerChar \in DOMAIN adjacentKeys
       THEN {adjacentKeys[lowerChar][n + 1] : n \in Intn(Len(adjacentKeys[lowerChar]))}
       ELSE {char}

\* The runes getAdjacentKey(char) can return: adjacent[rand.Intn(len(adjacent))]
\* of the lower-cased char, put back into upper case for an upper-case char;
\* char itself when the map has no entry for it.
getAdjacentKey(char) ==
    LET lowerChar == IF char >= 65 /\ char <= 90 THEN char + 32 ELSE char
    IN IF lowerChar \in DOMAIN adjacentKeys
       THEN {IF char >= 65 /\ char <= 90
             THEN adjacentKeys[lowerChar][n + 1] - 32
             ELSE adjacentKeys[lowerChar][n + 1] :
               n \in Intn(Len(adjacentKeys[lowerChar]))}
       ELSE {char}

\* The key event of element.Input(string(r)).
Input(r) == [call |-> "Input", key |-> r]

\* The key event of page.Keyboard.Press(input.Backspace).
Press == [call |-> "Press", key |-> Backspace]

\* delay := TypingDelayMin + Intn(TypingDelayMax - TypingDelayMin): the delays
\* an iteration can draw (none when Intn panics).
typingDelays(c) ==
    IF IntnPanics(c.TypingDelayMax - c.TypingDelayMin)
    THEN {}
    ELSE {c.TypingDelayMin + k : k \in Intn(c.TypingDelayMax - c.TypingDelayMin)}

\* A step of HumanType from position from.
TypeStep(from) ==
    /\ pc = from
    /\ op = "HumanType"
    /\ UNCHANGED <<now, limiterVars, ev, historyVars, op, bulk, tally, batch, checked, recorded,
                   zeroed, preCount, inWindow, config, wait, schedulerVars, text, deviceVars>>

\* The head of the loop: return nil after the last rune; otherwise draw the
\* delay of the keystroke and decide on a typing mistake.
HumanType_Loop ==
    /\ TypeStep("t_loop")
    /\ IF charIndex = Len(text)
       THEN pc' = "done" /\ result' = "ok"
       ELSE IF typingDelays(config) = {}
       THEN pc' = "panic" /\ result' = "panic"
       ELSE /\ \E k \in Intn(RandSteps) :
                 pc' = IF config.TypingMistakeRate > 0 /\ k < config.TypingMistakeRate
                       THEN "t_wrong"
                       ELSE "t_char"
            /\ UNCHANGED result
    /\ UNCHANGED <<keys, charIndex, field>>

\* wrongChar := s.getAdjacentKey(char); element.Input(string(wrongChar)),
\* whose error is returned.
HumanType_Wrong ==
    /\ TypeStep("t_wrong")
    /\ \E ok \in BOOLEAN :
         IF ok
         THEN /\ \E wrongChar \in getAdjacentKey(text[charIndex + 1]) :
                   /\ keys' = Append(keys, Input(wrongChar))
                   /\ field' = Append(field, wrongChar)
              /\ pc' = "t_back"
              /\ UNCHANGED result
         ELSE /\ pc' = "done"
              /\ result' = "err"
              /\ UNCHANGED <<keys, field>>
    /\ UNCHANGED charIndex

\* page.Keyboard.Press(input.Backspace): the key deletes the last character
\* of the element, or the call fails and deletes nothing; its error is
\* dropped either way.
HumanType_Backspace ==
    /\ TypeStep("t_back")
    /\ keys' = Append(keys, Press)
    /\ \E ok \in BOOLEAN :
          field' = IF ok THEN SubSeq(field, 1, Len(field) - 1) ELSE field
    /\ pc' = "t_char"
    /\ UNCHANGED <<result, charIndex>>

\* element.Input(string(char)), whose error is returned; then the sleep of
\* the keystroke and i++.
HumanType_Char ==
    /\ TypeStep("t_char")
    /\ \E ok \in BOOLEAN :
         IF ok
         THEN /\ keys' = Append(keys, Input(text[charIndex + 1]))
              /\ field' = Append(field, text[charIndex + 1])
              /\ charIndex' = charIndex + 1
              /\ pc' = "t_loop"
              /\ UNCHANGED result
         ELSE /\ pc' = "done"
              /\ result' = "err"
              /\ UNCHANGED <<keys, charIndex, field>>

\* The runes of the texts: 'a', 'Q', '1', ' ' and U+00E9.
Runes == {97, 81, 49, 32, 233}

\* The texts handed to HumanType.
Texts == UNION {[1..n -> Runes] : n \in 0..MaxTextLen}

\* HumanType is called with any text, mistake rate and typing delay range the
\* YAML file can give.
InitTyping ==
    /\ NewRateLimiter(0)
    /\ Thread("t_loop", "HumanType")
    /\ config \in {[RunConfig EXCEPT !.TypingMistakeRate = r, !.TypingDelayMax = hi] :
                     r \in 0..RandSteps, hi \in 0..MaxDelay}
    /\ NoSession
    /\ text \in Texts
    /\ keys = <<>>
    /\ charIndex = 0
    /\ field = <<>>
    /\ NoDevice

NextTyping ==
    \/ HumanType_Loop
    \/ HumanType_Wrong
    \/ HumanType_Backspace
    \/ HumanType_Char

\* One call of HumanType.
SpecTyping == InitTyping /\ [][NextTyping]_vars

\* A rune is a letter 'a'..'z' or 'A'..'Z'.
IsLetter(r) == (r >= 97 /\ r <= 122) \/ (r >= 65 /\ r <= 90)

\* w is a wrong character for the letter c: another letter of the case of c
\* that the adjacency map lists next to c.
WrongFor(w, c) ==
    /\ w # c
    /\ IsLetter(w)
    /\ (w >= 97) = (c >= 97)
    /\ LET lw == IF w >= 97 THEN w ELSE w + 32
           lc == IF c >= 97 THEN c ELSE c + 32
       IN \E n \in DOMAIN adjacentKeys[lc] : adjacentKeys[lc][n] = lw

\* The events ks are, rune by rune of txt, the single event [c] or the three
\* events [wrong, Backspace, c]; at rate 0 only the first form, at rate 1.0
\* (RandSteps) the second form for every letter.
RECURSIVE TypedAs(_, _, _)
TypedAs(ks, txt, rate) ==
    IF txt = <<>>
    THEN ks = <<>>
    ELSE \/ /\ Len(ks) >= 1
            /\ ks[1] = Input(Head(txt))
            /\ rate = RandSteps => ~IsLetter(Head(txt))
            /\ TypedAs(Tail(ks), Tail(txt), rate)
         \/ /\ rate > 0
            /\ Len(ks) >= 3
            /\ ks[1].call = "Input"
            /\ IsLetter(Head(txt)) => WrongFor(ks[1].key, Head(txt))
            /\ ks[2] = Press
            /\ ks[3] = Input(Head(txt))
            /\ TypedAs(SubSeq(ks, 4, Len(ks)), Tail(txt), rate)

\* C17: the key events HumanType sends are, for each character c of the text
\* in order, either [c] or [wrong character, Backspace, c], where for a letter
\* c the wrong character is a key adjacent to c, in the case of c and
\* different from c; at TypingMistakeRate 0 every character yields [c], at
\* 1.0 every letter yields the three events; and HumanType returns nil only
\* after the last character.
C17_HumanTypeKeys ==
    (op = "HumanType" /\ pc \in {"t_loop", "done"} /\ result # "err") =>
        /\ TypedAs(keys, SubSeq(text, 1, charIndex), config.TypingMistakeRate)
        /\ pc = "done" => charIndex = Len(text)

\* C17 witness: "Q1" has been typed with a mistake on the Q, for which W was
\* typed and deleted.
C17_Witness ==
    /\ pc = "done"
    /\ result = "ok"
    /\ text = <<81, 49>>
    /\ keys = <<Input(87), Press, Input(81), Input(49)>>

\* C18 (as claimed): a text of characters outside the adjacency table is
\* typed with exactly one key event per character, the character itself, at
\* every TypingMistakeRate.
C18_PassThrough ==
    (pc = "done" /\ result = "ok" /\ \A n \in DOMAIN text : ~IsLetter(text[n])) =>
        keys = [n \in DOMAIN text |-> Input(text[n])]

\* C19 (as claimed): with TypingDelayMin <= TypingDelayMax (the two equal
\* included) no draw of HumanType panics.
C19_NoPanic ==
    config.TypingDelayMin <= config.TypingDelayMax => pc # "panic"

\* The first n characters of the text.
Prefix(n) == SubSeq(text, 1, n)

\* C28: whenever HumanType returns nil the text left in the element equals
\* the input text, also when single Input or Backspace calls can fail; when it
\* returns an error, the element holds a prefix of the input with at most one
\* uncorrected wrong character at its end.
C28_ElementText ==
    (op = "HumanType" /\ pc = "done") =>
        /\ result = "ok" => field = text
        /\ result = "err" =>
              \E n \in 0..Len(text) :
                  \/ field = Prefix(n)
                  \/ /\ Len(field) = n + 1
                     /\ SubSeq(field, 1, n) = Prefix(n)

\* --------------------------------------------------------------- LoadConfig
\* The configurations DefaultConfig, the YAML file and the environment can
\* add up to: credentials present or not, limits and hours inside and on
\* both sides of the ranges Validate names, a known or unknown log level, and
\* each maximum of a range above or below its minimum (the minima are 1).
Configs ==
    {[RunConfig EXCEPT !.Email = em, !.Password = pw, !.Level = lv,
                       !.MaxConnectionsPerDay = mc, !.MaxMessagesPerDay = mm,
                       !.StartHour = sh, !.EndHour = eh,
                       !.TypingDelayMax = td, !.ActionDelayMax = ad,
                       !.PageLoadWaitMax = pl, !.ScrollSpeedMax = ss,
                       !.MaxDelayBetweenActions = da, !.BreakMinMax = bm] :
        em \in {"", "user@example.com"}, pw \in {"", "secret"},
        lv \in {"info", "verbose"},
        mc \in {-1, MaxConnectionsPerDay, 101}, mm \in {-1, MaxMessagesPerDay, 151},
        sh \in {-1, 9, 24}, eh \in {-1, 18, 24},
        td \in {0, MaxDelay}, ad \in {0, MaxDelay}, pl \in {0, MaxDelay},
        ss \in {0, MaxDelay}, da \in {0, MaxDelay}, bm \in {0, MaxBreak}}

\* LoadConfig up to applyEnvOverrides: the file cannot be read or parsed and
\* the error is returned, or the configuration stands ready for Validate.
LoadConfig_Read ==
    /\ pc = "load"
    /\ \E ok \in BOOLEAN :
         IF ok
         THEN pc' = "validate" /\ UNCHANGED result
         ELSE pc' = "done" /\ result' = "err"
    /\ UNCHANGED <<now, limiterVars, ev, historyVars, op, bulk, tally, batch, checked, recorded,
                   zeroed, preCount, inWindow, stealthVars>>

\* if err := config.Validate(); err != nil { return nil, err }; return config, nil
LoadConfig_Validate ==
    /\ pc = "validate"
    /\ ev' = [op |-> "Validate", arg |-> validate(config),
              can |-> validate(config) = "nil", rem |-> 0]
    /\ result' = IF ev'.can THEN "ok" ELSE "err"
    /\ pc' = "done"
    /\ UNCHANGED <<now, limiterVars, historyVars, op, bulk, tally, batch, checked, recorded,
                   zeroed, preCount, inWindow, stealthVars>>

\* main calls config.LoadConfig(*configPath).
InitConfig ==
    /\ NewRateLimiter(0)
    /\ Thread("load", "LoadConfig")
    /\ config \in Configs
    /\ NoSession
    /\ NoTyping
    /\ NoDevice

NextConfig ==
    \/ LoadConfig_Read
    \/ LoadConfig_Validate

\* One call of LoadConfig.
SpecConfig == InitConfig /\ [][NextConfig]_vars

\* A maximum of the configuration is below its minimum.
Inverted(c) ==
    \/ c.TypingDelayMax < c.TypingDelayMin
    \/ c.ActionDelayMax < c.ActionDelayMin
    \/ c.PageLoadWaitMax < c.PageLoadWaitMin
    \/ c.ScrollSpeedMax < c.ScrollSpeedMin
    \/ c.MaxDelayBetweenActions < c.MinDelayBetweenActions
    \/ c.BreakMinMax < c.BreakMinMin

\* C20 (as claimed): Config.Validate returns an error for every
\* configuration in which a maximum is below its minimum, so LoadConfig never
\* returns such a configuration.
C20_RejectsInvertedRanges ==
    (pc = "done" /\ result = "ok") => ~Inverted(config)

\* DefaultConfig() with the credentials filled in.
DefaultConfig ==
    [RunConfig EXCEPT !.MaxConnectionsPerDay = 25, !.MaxMessagesPerDay = 50]

\* The configurations Validate is asked about: every checked field below,
\* at, between, and above the limits of its check.
ValidateConfigs ==
    {[DefaultConfig EXCEPT !.Email = em, !.Password = pw, !.Level = lv,
                           !.MaxConnectionsPerDay = mc, !.MaxMessagesPerDay = mm,
                           !.StartHour = sh, !.EndHour = eh] :
        em \in {"", "user@example.com"}, pw \in {"", "secret"},
        lv \in {"debug", "info", "warn", "error", "verbose", ""},
        mc \in {-1, 0, 25, 100, 101}, mm \in {-1, 0, 50, 150, 151},
        sh \in {-1, 0, 9, 23, 24}, eh \in {-1, 0, 18, 23, 24}}

InitValidate ==
    /\ NewRateLimiter(0)
    /\ Thread("load", "LoadConfig")
    /\ config \in ValidateConfigs
    /\ NoSession
    /\ NoTyping
    /\ NoDevice

\* One call of LoadConfig on the configurations of ValidateConfigs.
SpecValidate == InitValidate /\ [][NextConfig]_vars

\* The conditions the claim lists.
Rejected(c) ==
    \/ c.Email = ""
    \/ c.Password = ""
    \/ c.MaxConnectionsPerDay \notin 0..100
    \/ c.MaxMessagesPerDay \notin 0..150
    \/ c.StartHour \notin 0..23
    \/ c.EndHour \notin 0..23
    \/ c.Level \notin {"debug", "info", "warn", "error"}

\* C25: Validate returns an error exactly when the e-mail or the password is
\* empty, MaxConnectionsPerDay is outside 0..100, MaxMessagesPerDay is outside
\* 0..150, StartHour or EndHour is outside 0..23, or the log level is none of
\* debug, info, warn, error; it accepts DefaultConfig with credentials; and it
\* leaves the configuration as it was.
C25_Validate ==
    [][pc = "validate" =>
          /\ ev'.op = "Validate"
          /\ (result' = "err") = Rejected(config)
          /\ (result' = "ok") = ~Rejected(config)
          /\ config = DefaultConfig => result' = "ok"
          /\ config' = config]_vars

C25_Witness ==
    /\ op = "LoadConfig"
    /\ pc = "done"
    /\ ev.op = "Validate"
    /\ config = DefaultConfig
    /\ result = "ok"

\* ------------------------------------------------------------------ float64
\* Point{X, Y float64}.  The coordinates keep the rounding of float64
\* arithmetic in a narrower format: a value is a whole number of units,
\* Unit units to the pixel, and every operation delivers its exact result
\* rounded to the nearest value of at most SigBits significant bits, ties to
\* the even significand (IEEE 754 binary64 does the same with 53 bits).
\* Literals of the source that the format cannot hold are rounded like every
\* other value.
Unit == 2 ^ 3
Significand == 2 ^ 6

Abs(x) == IF x < 0 THEN -x ELSE x

\* The spacing of the representable values around a magnitude m.
RECURSIVE Ulp(_)
Ulp(m) == IF m < Significand THEN 1 ELSE 2 * Ulp(m \div 2)

\* The float64 nearest to the exact quotient n / d (d > 0).
Round(n, d) ==
    LET m == Abs(n)
        k == Ulp(m \div d)
        q == m \div (d * k)
        r == m % (d * k)
        up == 2 * r > d * k \/ (2 * r = d * k /\ q % 2 = 1)
        v == (IF up THEN q + 1 ELSE q) * k
    IN  IF n < 0 THEN -v ELSE v

\* a + b, a - b, a * b and a * (n / d) in float64.
Fl(x) == Round(x, 1)
Mul(a, b) == Round(a * b, Unit)
Scale(a, n, d) == Round(a * n, d)
\* A literal of the source, in pixels.
Px(n) == Fl(n * Unit)

\* math.Sqrt: the float64 nearest to the square root.
RECURSIVE Root(_, _, _)
Root(lo, hi, n) ==
    IF lo = hi THEN lo
    ELSE LET mid == (lo + hi + 1) \div 2
         IN  IF mid * mid <= n THEN Root(mid, hi, n) ELSE Root(lo, mid - 1, n)

Sqrt(s) ==
    LET n == s * Unit
        f == Root(0, 2 ^ 14, n)
        k == Ulp(f)
        q == f \div k
        up == 4 * n > (2 * q * k + k) * (2 * q * k + k)
    IN  (IF up THEN q + 1 ELSE q) * k

\* rand.Float64() - 0.5 for the draw k / RandSteps, as the fraction
\* Centered(k) / (2 * RandSteps).
Centered(k) == 2 * k - RandSteps

\* --------------------------------------------------------------- MoveMouse
\* getApproximateMousePosition: return 683, 384.
getApproximateMousePosition == [X |-> Px(683), Y |-> Px(384)]

\* cubicBezier at t = i / m, one coordinate: uuu*p0 + 3*uu*t*p1 + 3*u*tt*p2 +
\* ttt*p3 with u = 1 - t; the weights are applied factor by factor.
cubicBezier(i, m, p0, p1, p2, p3) ==
    LET u == m - i
        a == Scale(Scale(Scale(p0, u, m), u, m), u, m)
        b == Scale(Scale(Scale(Scale(p1, 3, 1), u, m), u, m), i, m)
        c == Scale(Scale(Scale(Scale(p2, 3, 1), u, m), i, m), i, m)
        d == Scale(Scale(Scale(p3, i, m), i, m), i, m)
    IN  Fl(Fl(Fl(a + b) + c) + d)

\* generateBezierPath(start, end) for the four draws r (each k / RandSteps) of
\* the control points.
generateBezierPath(start, end, r) ==
    LET dx == Fl(end.X - start.X)
        dy == Fl(end.Y - start.Y)
        distance == Sqrt(Fl(Mul(dx, dx) + Mul(dy, dy)))
        numSteps == (Scale(distance, 1, 10) \div Unit) + 10
        offsetRange == Scale(distance, 3, 10)
        off(k) == Scale(offsetRange, Centered(k), 2 * RandSteps)
        ctrl1 == [X |-> Fl(Fl(start.X + Scale(dx, 1, 4)) + off(r[1])),
                  Y |-> Fl(Fl(start.Y + Scale(dy, 1, 4)) + off(r[2]))]
        ctrl2 == [X |-> Fl(Fl(start.X + Scale(dx, 3, 4)) + off(r[3])),
                  Y |-> Fl(Fl(start.Y + Scale(dy, 3, 4)) + off(r[4]))]
    IN  [i \in 1..numSteps |->
            [X |-> cubicBezier(i - 1, numSteps - 1, start.X, ctrl1.X, ctrl2.X, end.X),
             Y |-> cubicBezier(i - 1, numSteps - 1, start.Y, ctrl1.Y, ctrl2.Y, end.Y)]]

\* randomSign: -1 if rand.Float64() < 0.5, else 1, for the draw k / RandSteps.
randomSign(k) == IF 2 * k < RandSteps THEN -1 ELSE 1

\* (rand.Float64()*10 + 5) * randomSign() for the draws k and s.
overshoot(k, s) == Fl(Scale(Px(10), k, RandSteps) + Px(5)) * randomSign(s)

\* addOvershoot(points, targetX, targetY): the overshoot point past the
\* target, then correctionSteps points back to it.  r holds the four draws of
\* the overshoot, n is rand.Intn(3).
addOvershoot(pts, tgt, r, n) ==
    LET overshootPoint == [X |-> Fl(tgt.X + overshoot(r[1], r[2])),
                           Y |-> Fl(tgt.Y + overshoot(r[3], r[4]))]
        correctionSteps == 3 + n
    IN  pts \o <<overshootPoint>> \o
        [i \in 1..correctionSteps |->
            [X |-> Fl(overshootPoint.X +
                      Scale(Fl(tgt.X - overshootPoint.X), i, correctionSteps)),
             Y |-> Fl(overshootPoint.Y +
                      Scale(Fl(tgt.Y - overshootPoint.Y), i, correctionSteps))]]

\* One step of the thread inside MoveMouse.
MouseStep(from) ==
    /\ pc = from
    /\ op = "MoveMouse"
    /\ UNCHANGED <<now, limiterVars, ev, historyVars, op, bulk, tally, batch, checked, recorded,
                   zeroed, preCount, inWindow, config, wait, schedulerVars,
                   typingVars, maskVars, scrollVars, delayVars, target>>

Draws(n) == [1..n -> Intn(RandSteps)]

\* MoveMouse: points := s.generateBezierPath(current position, target).
MoveMouse_Path ==
    /\ MouseStep("m_path")
    /\ \E r \in Draws(4) :
          points' = generateBezierPath(getApproximateMousePosition, target, r)
    /\ pc' = "m_over"
    /\ UNCHANGED <<result, index, mouse>>

\* if s.config.MouseOvershoot && s.rand.Float64() < 0.3 { points = addOvershoot }
MoveMouse_Overshoot ==
    /\ MouseStep("m_over")
    /\ \E k \in Intn(RandSteps) :
          IF config.MouseOvershoot /\ 10 * k < 3 * RandSteps
          THEN \E r \in Draws(4), n \in Intn(3) :
                  points' = addOvershoot(points, target, r, n)
          ELSE points' = points
    /\ pc' = "m_loop"
    /\ UNCHANGED <<result, index, mouse>>

\* The loop body: page.Mouse.MoveLinear(point, 1); its error is returned.
\* The sleep of calculateMovementDelay before it changes nothing here.
MoveMouse_Move ==
    /\ MouseStep("m_loop")
    /\ index < Len(points)
    /\ mouse' = [moves |-> mouse.moves + 1, at |-> points[index + 1]]
    /\ \E ok \in BOOLEAN :
          IF ~ok
          THEN pc' = "done" /\ result' = "err" /\ index' = index
          ELSE /\ result' = result
               \* i > len(points)-5, i counted from 0
               /\ IF config.MouseMicroCorrect /\ index > Len(points) - 5
                  THEN pc' = "m_micro" /\ index' = index
                  ELSE pc' = "m_loop" /\ index' = index + 1
    /\ UNCHANGED points

\* addMicroCorrection(page, point.X, point.Y): one more MoveLinear, at most a
\* pixel off the point; its error is dropped.
MoveMouse_Micro ==
    /\ MouseStep("m_micro")
    /\ \E kx \in Intn(RandSteps), ky \in Intn(RandSteps) :
          mouse' = [moves |-> mouse.moves + 1,
                    at |-> [X |-> Fl(points[index + 1].X +
                                     Scale(Px(2), Centered(kx), 2 * RandSteps)),
                            Y |-> Fl(points[index + 1].Y +
                                     Scale(Px(2), Centered(ky), 2 * RandSteps))]]
    /\ index' = index + 1
    /\ pc' = "m_loop"
    /\ UNCHANGED <<result, points>>

\* After the last point: log and return nil.
MoveMouse_Return ==
    /\ MouseStep("m_loop")
    /\ index = Len(points)
    /\ pc' = "done"
    /\ result' = "ok"
    /\ UNCHANGED <<points, index, mouse>>

\* The targets MoveMouse is called with: the pointer's own position, a point
\* some pixels from it, and a point next to the page's left edge.
Targets ==
    {getApproximateMousePosition,
     [X |-> Px(704), Y |-> Px(400)],
     [X |-> Unit + 1, Y |-> Px(384)]}

InitMouse ==
    /\ NewRateLimiter(0)
    /\ Thread("m_path", "MoveMouse")
    /\ config \in {[RunConfig EXCEPT !.MouseOvershoot = o, !.MouseMicroCorrect = m] :
                     o \in BOOLEAN, m \in BOOLEAN}
    /\ NoSession
    /\ NoTyping
    /\ NoMask
    /\ NoScroll
    /\ NoDelay
    /\ target \in Targets
    /\ points = <<>>
    /\ index = 0
    /\ mouse = [moves |-> 0, at |-> NoPoint]

NextMouse ==
    \/ MoveMouse_Path
    \/ MoveMouse_Overshoot
    \/ MoveMouse_Move
    \/ MoveMouse_Micro
    \/ MoveMouse_Return

SpecMouse == InitMouse /\ [][NextMouse]_vars

Planned == op = "MoveMouse" /\ pc \notin {"m_path", "m_over"}

\* C21: the point sequence MoveMouse plans (generateBezierPath, then
\* addOvershoot when it is drawn) has at least 10 points, starts at the start
\* point and ends at the target exactly, with and without the overshoot.
C21_PlannedPath ==
    /\ op = "MoveMouse" /\ pc = "m_over" =>
          /\ Len(points) >= 10
          /\ points[1] = getApproximateMousePosition
          /\ points[Len(points)] = target
    /\ Planned =>
          /\ Len(points) >= 10
          /\ points[1] = getApproximateMousePosition
          /\ points[Len(points)] = target


\* C27: when MoveMouse returns nil the last pointer-move command it issued has
\* exactly the target's coordinates, whatever MouseOvershoot, MouseMicroCorrect
\* and the random draws are; when a path pointer-move command fails MoveMouse
\* returns the error and that command stays the last one issued.
C27_LastMoveOnTarget ==
    (op = "MoveMouse" /\ pc = "done") =>
        /\ mouse.moves >= 1
        /\ result = "ok" => mouse.at = target
        /\ result = "err" => mouse.at = points[index + 1]

\* ------------------------------------------------- ApplyFingerprintMasking
\* Strings are sequences of code points.
Zero == 48

\* strconv.Itoa: the decimal numeral of n >= 0.
RECURSIVE Itoa(_)
Itoa(n) == IF n < 10 THEN <<Zero + n>> ELSE Itoa(n \div 10) \o <<Zero + (n % 10)>>

\* cores := []int{4, 8, 12, 16}
cores == <<4, 8, 12, 16>>

\* randomHardwareConcurrency for the draw k = rand.Intn(len(cores)):
\* string(rune('0' + cores[k])), the one character whose code point is
\* '0' plus the number of cores.
randomHardwareConcurrency(k) == <<Zero + cores[k + 1]>>

\* One step of the thread inside ApplyFingerprintMasking.
MaskStep(from) ==
    /\ pc = from
    /\ op = "ApplyFingerprintMasking"
    /\ UNCHANGED <<now, limiterVars, ev, historyVars, op, bulk, tally, batch, checked, recorded,
                   zeroed, preCount, inWindow, config, wait, schedulerVars,
                   typingVars, mouseVars, scrollVars, delayVars>>

\* The scripts are put together: the webdriver script if DisableWebdriver,
\* the Chrome properties, and the hardwareConcurrency override with the
\* string of randomHardwareConcurrency in it.
ApplyFingerprintMasking_Build ==
    /\ MaskStep("f_build")
    /\ \E k \in Intn(Len(cores)) :
          scripts' = (IF config.DisableWebdriver
                      THEN <<[property |-> "webdriver", get |-> <<>>]>>
                      ELSE <<>>) \o
                     <<[property |-> "plugins", get |-> <<>>],
                       [property |-> "hardwareConcurrency",
                        get |-> randomHardwareConcurrency(k)]>>
    /\ pc' = "f_eval"
    /\ UNCHANGED <<result, evals>>

\* for _, script := range scripts { page.Eval(script) }: an error is logged
\* and the loop goes on.
ApplyFingerprintMasking_Eval ==
    /\ MaskStep("f_eval")
    /\ Len(evals) < Len(scripts)
    /\ \E ok \in BOOLEAN : evals' = Append(evals, ok)
    /\ UNCHANGED <<pc, result, scripts>>

\* return nil
ApplyFingerprintMasking_Return ==
    /\ MaskStep("f_eval")
    /\ Len(evals) = Len(scripts)
    /\ pc' = "done"
    /\ result' = "ok"
    /\ UNCHANGED <<scripts, evals>>

InitMask ==
    /\ NewRateLimiter(0)
    /\ Thread("f_build", "ApplyFingerprintMasking")
    /\ config \in {[RunConfig EXCEPT !.DisableWebdriver = w] : w \in BOOLEAN}
    /\ NoSession
    /\ NoTyping
    /\ NoDevice

NextMask ==
    \/ ApplyFingerprintMasking_Build
    \/ ApplyFingerprintMasking_Eval
    \/ ApplyFingerprintMasking_Return

SpecMask == InitMask /\ [][NextMask]_vars

\* C22: the value ApplyFingerprintMasking writes into the script that
\* overrides navigator.hardwareConcurrency is the decimal numeral of one of
\* 4, 8, 12, 16, for every draw.
C22_HardwareConcurrency ==
    \A i \in 1..Len(scripts) :
        scripts[i].property = "hardwareConcurrency" =>
            scripts[i].get \in {Itoa(cores[c]) : c \in 1..Len(cores)}

\* ------------------------------------------------------------- HumanScroll
\* One step of the thread inside HumanScroll.
ScrollStep(from) ==
    /\ pc = from
    /\ op = "HumanScroll"
    /\ UNCHANGED <<now, limiterVars, ev, historyVars, op, bulk, tally, batch, checked, recorded,
                   zeroed, preCount, inWindow, config, wait, schedulerVars,
                   typingVars, mouseVars, maskVars, delayVars, direction, amount>>

\* actualAmount := amount + s.rand.Intn(100) - 50; scrolled := 0
HumanScroll_Call ==
    /\ ScrollStep("s_call")
    /\ \E j \in Intn(2 * MaxJitter) : actualAmount' = amount + j - MaxJitter
    /\ scrolled' = 0
    /\ pc' = "s_loop"
    /\ UNCHANGED <<result, deltas, back>>

\* Scrolls of one call the model follows (a loop that does not advance is
\* cut off there).
MaxScrolls == MaxAmount + MaxJitter + 1

\* The increment of one pass of the loop for the draw n.
increment(c, n) ==
    IF scrolled + c.ScrollSpeedMin + n > actualAmount
    THEN actualAmount - scrolled
    ELSE c.ScrollSpeedMin + n

\* One pass of for scrolled < actualAmount: draw the increment, clip it to
\* what is left, page.Mouse.Scroll(0, deltaY, 1) (its error is returned),
\* scrolled += increment.
HumanScroll_Loop ==
    /\ ScrollStep("s_loop")
    /\ scrolled < actualAmount
    /\ Len(deltas) < MaxScrolls
    /\ IF IntnPanics(config.ScrollSpeedMax - config.ScrollSpeedMin)
       THEN /\ pc' = "panic"
            /\ UNCHANGED <<result, actualAmount, scrolled, deltas, back>>
       ELSE \E n \in Intn(config.ScrollSpeedMax - config.ScrollSpeedMin), ok \in BOOLEAN :
               LET deltaY == IF direction = "up"
                             THEN -increment(config, n) ELSE increment(config, n)
               IN  /\ deltas' = Append(deltas, deltaY)
                   /\ IF ok
                      THEN /\ scrolled' = scrolled + increment(config, n)
                           /\ UNCHANGED <<pc, result>>
                      ELSE /\ pc' = "done"
                           /\ result' = "err"
                           /\ UNCHANGED scrolled
                   /\ UNCHANGED <<actualAmount, back>>

\* After the loop: with chance ScrollBackChance scrollBack scrolls 50 to 149
\* the other way (its error is dropped); return nil.
HumanScroll_Return ==
    /\ ScrollStep("s_loop")
    /\ ~(scrolled < actualAmount)
    /\ \E k \in Intn(RandSteps) :
          IF k < config.ScrollBackChance
          THEN \E b \in Intn(2 * MaxJitter) :
                  back' = IF direction = "down"
                          THEN -(MaxJitter + b) ELSE MaxJitter + b
          ELSE back' = back
    /\ pc' = "done"
    /\ result' = "ok"
    /\ UNCHANGED <<actualAmount, scrolled, deltas>>

InitScroll ==
    /\ NewRateLimiter(0)
    /\ Thread("s_call", "HumanScroll")
    /\ config \in {[RunConfig EXCEPT !.ScrollSpeedMin = lo, !.ScrollSpeedMax = hi] :
                     lo \in 0..MaxDelay, hi \in 0..MaxDelay}
    /\ NoSession
    /\ NoTyping
    /\ NoMouse
    /\ NoMask
    /\ NoDelay
    /\ direction \in {"up", "down"}
    /\ amount \in 0..MaxAmount
    /\ actualAmount = 0
    /\ scrolled = 0
    /\ deltas = <<>>
    /\ back = 0

NextScroll ==
    \/ HumanScroll_Call
    \/ HumanScroll_Loop
    \/ HumanScroll_Return

SpecScroll == InitScroll /\ [][NextScroll]_vars

RECURSIVE SumAbs(_)
SumAbs(ds) == IF ds = <<>> THEN 0 ELSE Abs(Head(ds)) + SumAbs(Tail(ds))

\* C23: every forward delta HumanScroll emits carries the sign of the
\* direction (negative for up, positive for down); the jittered amount is
\* within the jitter of the amount; when it is <= 0 no delta is emitted; and
\* when HumanScroll returns nil the absolute values of the deltas sum to the
\* jittered amount exactly.
C23_ForwardDeltas ==
    op = "HumanScroll" /\ pc # "s_call" =>
        /\ \A i \in 1..Len(deltas) :
              IF direction = "up" THEN deltas[i] < 0 ELSE deltas[i] > 0
        /\ Abs(actualAmount - amount) <= MaxJitter
        /\ actualAmount <= 0 => deltas = <<>>
        /\ pc = "done" /\ result = "ok" /\ actualAmount > 0 =>
              SumAbs(deltas) = actualAmount

\* -------------------------------------------------- calculateMovementDelay
\* math.Sin(float64(step) / float64(totalSteps) * math.Pi) in millionths,
\* rounded down, for totalSteps 10 to 14 (one row each) and step 0 to
\* totalSteps - 1: the float64 values the code computes.  Rounded down to
\* millionths they give the same int(float64(d) * easeFactor) as the float64
\* product for every d the model reaches.
Micro == 10 ^ 6

SinTable ==
    <<<<0, 309016, 587785, 809016, 951056, 1000000, 951056, 809016, 587785, 309016>>,
     <<0, 281732, 540640, 755749, 909631, 989821, 989821, 909631, 755749, 540640, 281732>>,
     <<0, 258819, 499999, 707106, 866025, 965925, 1000000, 965925, 866025, 707106, 499999, 258819>>,
     <<0, 239315, 464723, 663122, 822983, 935016, 992708, 992708, 935016, 822983, 663122, 464723, 239315>>,
     <<0, 222520, 433883, 623489, 781831, 900968, 974927, 1000000, 974927, 900968, 781831, 623489, 433883, 222520>>>>

easeFactor(s, n) == SinTable[n - 9][s + 1]

\* MouseSpeedMin and MouseSpeedMax are float64 and kept in quarters:
\* minDelay := int(MouseSpeedMin * 5), maxDelay := int(MouseSpeedMax * 15).
minDelay(c) == (c.MouseSpeedMin * 5) \div 4
maxDelay(c) == (c.MouseSpeedMax * 15) \div 4

\* Conversion of a float64 to int: truncation toward zero.
Trunc(n, d) == IF n < 0 THEN -((-n) \div d) ELSE n \div d

\* calculateMovementDelay_Linear weighs by the progress itself instead of
\* its sine.
calculateMovementDelay_Linear(c, s, n, j) ==
    maxDelay(c) - Trunc((maxDelay(c) - minDelay(c)) * s, n) + j

\* calculateMovementDelay(step, totalSteps) for the draw j = rand.Intn(3).
calculateMovementDelay(c, s, n, j) ==
    maxDelay(c) - Trunc((maxDelay(c) - minDelay(c)) * easeFactor(s, n), Micro) + j

\* MoveMouse asks for the delay of every step of a path in turn:
\* delay := s.calculateMovementDelay(i, len(points)).
CalculateMovementDelay ==
    /\ pc = "d_loop"
    /\ op = "calculateMovementDelay"
    /\ step < totalSteps
    /\ \E j \in Intn(3) :
          /\ delay' = calculateMovementDelay(config, step, totalSteps, j)
          /\ delayStart' = IF step = 0 THEN delay' ELSE delayStart
          /\ delayMiddle' = IF step = totalSteps \div 2 THEN delay' ELSE delayMiddle
    /\ step' = step + 1
    /\ pc' = IF step' = totalSteps THEN "done" ELSE "d_loop"
    /\ result' = IF step' = totalSteps THEN "ok" ELSE result
    /\ UNCHANGED <<now, limiterVars, ev, historyVars, op, bulk, tally, batch, checked, recorded,
                   zeroed, preCount, inWindow, config, wait, schedulerVars,
                   typingVars, mouseVars, maskVars, scrollVars, totalSteps>>

InitDelay ==
    /\ NewRateLimiter(0)
    /\ Thread("d_loop", "calculateMovementDelay")
    /\ config \in {[RunConfig EXCEPT !.MouseSpeedMin = lo, !.MouseSpeedMax = hi] :
                     lo \in 0..MaxSpeed, hi \in 0..MaxSpeed}
    /\ NoSession
    /\ NoTyping
    /\ NoMouse
    /\ NoMask
    /\ NoScroll
    /\ totalSteps \in 10..MaxSteps
    /\ step = 0
    /\ delay = 0
    /\ delayStart = 0
    /\ delayMiddle = 0

NextDelay == CalculateMovementDelay

SpecDelay == InitDelay /\ [][NextDelay]_vars

\* The ease law on the delays computed so far: the delay of the middle step
\* is strictly below the delay of step 0 and of step totalSteps - 1, and no
\* delay is negative.
EaseLaw ==
    /\ delay >= 0
    /\ step > totalSteps \div 2 => delayMiddle < delayStart
    /\ step = totalSteps => delayMiddle < delay

\* C24 as stated: the ease law holds for every configuration with
\* 0 <= MouseSpeedMin <= MouseSpeedMax, every totalSteps >= 10 and every jitter
\* draw.
C24_EaseLawEveryConfig ==
    op = "calculateMovementDelay" /\ config.MouseSpeedMin <= config.MouseSpeedMax
        => EaseLaw

\* C24: the ease law holds for every configuration whose delays span 5 ms or
\* more (maxDelay - minDelay >= 5), every totalSteps >= 10 and every jitter
\* draw; no delay is negative whenever MouseSpeedMin <= MouseSpeedMax.
C24_EaseLaw ==
    op = "calculateMovementDelay" =>
        /\ maxDelay(config) - minDelay(config) >= 5 => EaseLaw
        /\ config.MouseSpeedMin <= config.MouseSpeedMax => delay >= 0

\* The narrowest span of the law: an odd path, the middle delay with the
\* largest jitter, the others with none.
C24_Witness ==
    /\ op = "calculateMovementDelay"
    /\ step = totalSteps
    /\ totalSteps = 11
    /\ maxDelay(config) - minDelay(config) = 5
    /\ delay = calculateMovementDelay(config, totalSteps - 1, totalSteps, 0)
    /\ delayMiddle = calculateMovementDelay(config, totalSteps \div 2, totalSteps, 2)
    /\ delayMiddle = delay - 1

====
